---------------------------- MODULE Spec2Model ----------------------------
(***************************************************************************)
(* Model of the context/entity extraction and semantic retrieval core of   *)
(* the conversation service.                                               *)
(*                                                                         *)
(*   Spec         the Entity Store (ContextHandler.addEntity) over table   *)
(*                session_entities, callers interleaving at the database   *)
(*                callbacks                                                *)
(*   SpecExtract  the Extraction Coordinator (ContextExtractor.extract)    *)
(*                with its three stages and the remote entity call         *)
(*   SpecSearch   the Semantic Retriever (searchMessages)                  *)
(*   SpecIngest   message ingestion and the extraction request: addMessage *)
(*                and route /context.extract driving extractAndStore       *)
(*   SpecList     getEntities over the tables the Entity Store can hold    *)
(*   SpecCosine   cosineSimilarity on pairs of vectors                     *)
(*   SpecStore    addMessage, deleteMessage, createSession and             *)
(*                switchSession, callers interleaving at the awaited       *)
(*                statements                                               *)
(*                                                                         *)
(* A value that JavaScript may leave undefined is a set: {} when missing,  *)
(* {v} when present.  A text is a sequence of tokens (words and            *)
(* punctuation marks, the blanks between them left out); confidences and   *)
(* similarities are in hundredths.                                         *)
(***************************************************************************)
EXTENDS Integers, Sequences, FiniteSets, TLC

VARIABLES
    session_entities,   \* the rows of table session_entities
    now,                \* the wall clock read by CURRENT_TIMESTAMP / Date.now()
    nextId,             \* source of fresh `ent_<time>_<random>` ids
    call,               \* per caller: the addEntity invocation it is running
    started,            \* number of addEntity invocations issued so far
    succ,               \* history: per triple, the number of resolved addEntity calls
    overlap,            \* history: per triple, TRUE once two calls for it were in flight together
    firstAt,            \* history: per triple, the clock value written by its first resolved call
    ex,                 \* the extract() invocation in progress
    conversation_messages,  \* the rows of table conversation_messages
    srch,               \* the searchMessages() invocation in progress
    session_context,    \* the rows of table session_context, in insertion order
    conversation_sessions,  \* per session id: message_count of its conversation_sessions row
    req,                \* the addMessage / context.extract request in progress
    listing,            \* the getEntities() invocation in progress
    cos,                \* the cosineSimilarity() evaluation at hand
    is_active,          \* per session id: is_active of its conversation_sessions row
    op                  \* per caller: the message or session handler call it is running

entityVars == <<session_entities, nextId, call, started, succ, overlap, firstAt>>
extractVars == <<ex>>
searchVars == <<conversation_messages, srch>>
ingestVars == <<session_context, conversation_sessions, req, is_active, op>>
listVars == <<listing>>
cosineVars == <<cos>>
otherVars == <<ingestVars, listVars, cosineVars>>

vars == <<entityVars, now, extractVars, searchVars, otherVars>>

---------------------------------------------------------------------------
\* No extraction and no search is running.
NoExtract == [ pc |-> "idle" ]
NoSearch == [ pc |-> "idle" ]
NoRequest == [ pc |-> "idle" ]
NoListing == [ pc |-> "idle" ]
NoCosine == [ pc |-> "idle" ]

---------------------------------------------------------------------------
(* Bounds of the model *)

MaxCalls == 3
MaxClock == 1

Callers == {"a", "b"}

\* (sessionId, entityType, entityValue): the identity key is compared exactly,
\* so "Bob" and "bob" are different triples.
Triples == { <<"s1", "person", "Bob">>, <<"s1", "person", "bob">> }

Metadatas == { "{}", "{confidence}" }

---------------------------------------------------------------------------
(* Table session_entities *)

\* WHERE session_id = ? AND entity_type = ? AND entity_value = ?
RowsFor(rows, t) ==
    { r \in rows : /\ r.session_id = t[1]
                   /\ r.entity_type = t[2]
                   /\ r.entity_value = t[3] }

\* A slip: the new row starts at count 0.
InsertEntityRowZero(id, t, metadataStr, ts) ==
    [ id                 |-> id,
      session_id         |-> t[1],
      entity_type        |-> t[2],
      entity_value       |-> t[3],
      metadata           |-> metadataStr,
      first_mentioned_at |-> ts,
      last_mentioned_at  |-> ts,
      mention_count      |-> 0 ]

\* INSERT INTO session_entities (...) VALUES (?, ?, ?, ?, ?, CURRENT_TIMESTAMP, CURRENT_TIMESTAMP, 1)
InsertEntityRow(id, t, metadataStr, ts) ==
    [ id                 |-> id,
      session_id         |-> t[1],
      entity_type        |-> t[2],
      entity_value       |-> t[3],
      metadata           |-> metadataStr,
      first_mentioned_at |-> ts,
      last_mentioned_at  |-> ts,
      mention_count      |-> 1 ]

\* A slip the upsert could make: the UPDATE stamps the row but forgets the
\* increment.
UpdateEntityRowsNoIncrement(rows, id, ts) ==
    { IF r.id = id THEN [r EXCEPT !.last_mentioned_at = ts] ELSE r : r \in rows }

\* A slip: the UPDATE writes the whole row anew, first_mentioned_at included.
UpdateEntityRowsRestamp(rows, id, ts) ==
    { IF r.id = id
        THEN [r EXCEPT !.mention_count = r.mention_count + 1,
                       !.first_mentioned_at = ts,
                       !.last_mentioned_at = ts]
        ELSE r : r \in rows }

\* UPDATE session_entities SET mention_count = mention_count + 1,
\*        last_mentioned_at = CURRENT_TIMESTAMP WHERE id = ?
UpdateEntityRows(rows, id, ts) ==
    { IF r.id = id
        THEN [r EXCEPT !.mention_count = r.mention_count + 1,
                       !.last_mentioned_at = ts]
        ELSE r : r \in rows }

---------------------------------------------------------------------------
(* ContextHandler.addEntity, one step per database callback *)

Idle == [ pc |-> "idle" ]

InFlight(c) == call[c].pc \in {"get", "update", "insert"}

CallTriple(c) == call[c].triple

\* addEntity(sessionId, entityType, entityValue, metadata): the promise
\* executor issues the SELECT.
AddEntity(c, t, md) ==
    /\ call[c].pc = "idle"
    /\ started < MaxCalls
    /\ call' = [call EXCEPT ![c] = [ pc |-> "get", triple |-> t, metadata |-> md ]]
    /\ started' = started + 1
    /\ overlap' = [overlap EXCEPT ![t] =
                      @ \/ \E d \in Callers \ {c} : InFlight(d) /\ CallTriple(d) = t]
    /\ UNCHANGED <<session_entities, now, nextId, succ, firstAt, extractVars, searchVars, otherVars>>

\* The SELECT's callback with a row: `if (existing)` issues the UPDATE.
\* db.get hands back one of the matching rows.
GetFound(c) ==
    /\ call[c].pc = "get"
    /\ \E r \in RowsFor(session_entities, call[c].triple) :
          call' = [call EXCEPT ![c] = [ pc |-> "update", triple |-> call[c].triple,
                                        metadata |-> call[c].metadata, existing |-> r ]]
    /\ UNCHANGED <<session_entities, now, nextId, started, succ, overlap, firstAt, extractVars, searchVars, otherVars>>

\* The SELECT's callback without a row: the else branch makes the id and the
\* metadata string and issues the INSERT.
GetNotFound(c) ==
    /\ call[c].pc = "get"
    /\ RowsFor(session_entities, call[c].triple) = {}
    /\ call' = [call EXCEPT ![c] = [ pc |-> "insert", triple |-> call[c].triple,
                                     metadata |-> call[c].metadata, id |-> nextId ]]
    /\ nextId' = nextId + 1
    /\ UNCHANGED <<session_entities, now, started, succ, overlap, firstAt, extractVars, searchVars, otherVars>>

\* A slip: the UPDATE writes the count of the looked-up row plus one, and the
\* metadata of the call.
RunUpdateFromSnapshot(c) ==
    /\ call[c].pc = "update"
    /\ LET e == call[c].existing
           t == call[c].triple IN
       /\ session_entities' =
              { IF r.id = e.id
                  THEN [r EXCEPT !.mention_count = e.mention_count + 1,
                                 !.last_mentioned_at = now,
                                 !.metadata = call[c].metadata]
                  ELSE r : r \in session_entities }
       /\ call' = [call EXCEPT ![c] =
                      [ pc |-> "resolved", triple |-> t, metadata |-> call[c].metadata,
                        result |-> [e EXCEPT !.mention_count = e.mention_count + 1,
                                             !.last_mentioned_at = now] ]]
       /\ succ' = [succ EXCEPT ![t] = @ + 1]
    /\ UNCHANGED <<now, nextId, started, overlap, firstAt, extractVars, searchVars, otherVars>>

\* The UPDATE runs and its callback resolves with the looked-up row, its
\* count raised by one.
RunUpdate(c) ==
    /\ call[c].pc = "update"
    /\ LET e == call[c].existing
           t == call[c].triple IN
       /\ session_entities' = UpdateEntityRows(session_entities, e.id, now)
       /\ call' = [call EXCEPT ![c] =
                      [ pc |-> "resolved", triple |-> t, metadata |-> call[c].metadata,
                        result |-> [e EXCEPT !.mention_count = e.mention_count + 1,
                                             !.last_mentioned_at = now] ]]
       /\ succ' = [succ EXCEPT ![t] = @ + 1]
    /\ UNCHANGED <<now, nextId, started, overlap, firstAt, extractVars, searchVars, otherVars>>

\* The INSERT runs and its callback resolves with the new record.
RunInsert(c) ==
    /\ call[c].pc = "insert"
    /\ LET t == call[c].triple IN
       /\ session_entities' = session_entities \cup
                                 { InsertEntityRow(call[c].id, t, call[c].metadata, now) }
       /\ call' = [call EXCEPT ![c] =
                      [ pc |-> "resolved", triple |-> t, metadata |-> call[c].metadata,
                        result |-> [ id |-> call[c].id, sessionId |-> t[1],
                                     entity_type |-> t[2], entity_value |-> t[3],
                                     mention_count |-> 1,
                                     metadata |-> call[c].metadata ] ]]
       /\ succ' = [succ EXCEPT ![t] = @ + 1]
       /\ firstAt' = [firstAt EXCEPT ![t] = IF succ[t] = 0 THEN now ELSE @]
    /\ UNCHANGED <<now, nextId, started, overlap, extractVars, searchVars, otherVars>>

\* Any of the three statements may fail: `if (err) return reject(err)`.
\* Nothing is written.
DbError(c) ==
    /\ InFlight(c)
    /\ call' = [call EXCEPT ![c] = [ pc |-> "rejected", triple |-> call[c].triple ]]
    /\ UNCHANGED <<session_entities, now, nextId, started, succ, overlap, firstAt, extractVars, searchVars, otherVars>>

\* The caller takes the settled promise.
Return(c) ==
    /\ call[c].pc \in {"resolved", "rejected"}
    /\ call' = [call EXCEPT ![c] = Idle]
    /\ UNCHANGED <<session_entities, now, nextId, started, succ, overlap, firstAt, extractVars, searchVars, otherVars>>

\* Time passes.
Tick ==
    /\ now < MaxClock
    /\ now' = now + 1
    /\ UNCHANGED <<entityVars, extractVars, searchVars, otherVars>>

EntityInit ==
    /\ session_entities = {}
    /\ nextId = 1
    /\ call = [c \in Callers |-> Idle]
    /\ started = 0
    /\ succ = [t \in Triples |-> 0]
    /\ overlap = [t \in Triples |-> FALSE]
    /\ firstAt = [t \in Triples |-> 0]

\* Nothing else is stored or running.
OtherInit ==
    /\ session_context = <<>>
    /\ conversation_sessions = [ sid \in {"s1"} |-> 0 ]
    /\ req = NoRequest
    /\ listing = NoListing
    /\ cos = NoCosine
    /\ is_active = [ sid \in {"s1"} |-> TRUE ]
    /\ op = [ c \in Callers |-> Idle ]

Init ==
    /\ EntityInit
    /\ now = 0
    /\ ex = NoExtract
    /\ conversation_messages = {}
    /\ srch = NoSearch
    /\ OtherInit

Next ==
    \/ \E c \in Callers, t \in Triples, md \in Metadatas : AddEntity(c, t, md)
    \/ \E c \in Callers : GetFound(c)
    \/ \E c \in Callers : GetNotFound(c)
    \/ \E c \in Callers : RunUpdate(c)
    \/ \E c \in Callers : RunInsert(c)
    \/ \E c \in Callers : DbError(c)
    \/ \E c \in Callers : Return(c)
    \/ Tick

Spec == Init /\ [][Next]_vars

---------------------------------------------------------------------------
(* Texts: sequences of tokens *)

Min(S) == CHOOSE x \in S : \A y \in S : x <= y

Punct == {".", ","}

\* Tokens holding a character that is neither \w nor a terminator of a capture.
NonWords == Punct \cup {"I'm", "!"}

\* The token matches \w+ as a whole.
IsWord(tok) == tok \notin NonWords

\* The longest prefix of the token that \w+ matches ("" when there is none).
WordPrefix(tok) ==
    CASE tok = "I'm"       -> "I"
      [] tok \in NonWords  -> ""
      [] OTHER             -> tok

\* String.prototype.toLowerCase, token by token (also what the /i flag compares).
Lower(tok) ==
    CASE tok = "My"    -> "my"
      [] tok = "I"     -> "i"
      [] tok = "I'm"   -> "i'm"
      [] tok = "Color" -> "color"
      [] tok = "Paris" -> "paris"
      [] tok = "PARIS" -> "paris"
      [] tok = "Pizza" -> "pizza"
      [] tok = "New"   -> "new"
      [] tok = "York"  -> "york"
      [] tok = "Bob"   -> "bob"
      [] tok = "Al"    -> "al"
      [] OTHER         -> tok

TokIs(text, i, w) == i <= Len(text) /\ Lower(text[i]) = w
TokIn(text, i, S) == i <= Len(text) /\ Lower(text[i]) \in S

\* ([\w\s]+?)(?:\.|$|,) tried at token i: the run of words from i ends at
\* token WordRunEnd - 1.
WordRunEnd(text, i) ==
    Min({ j \in i..(Len(text) + 1) : j = Len(text) + 1 \/ ~IsWord(text[j]) })

\* The capture succeeds when at least one word is followed by ".", "," or the
\* end of the text.
CaptureOk(text, i) ==
    /\ i <= Len(text)
    /\ LET j == WordRunEnd(text, i) IN
          /\ j > i
          /\ (j = Len(text) + 1 \/ text[j] \in Punct)

\* match[n].trim()
Capture(text, i) == SubSeq(text, i, WordRunEnd(text, i) - 1)

\* String.prototype.match with a regex without the g flag: the leftmost
\* position among those (S) where it matches, 0 for null.
FirstIndex(S) == IF S = {} THEN 0 ELSE Min(S)

\* haystack.toLowerCase().includes(needle.toLowerCase())
Includes(hay, needle) ==
    \E k \in 0..(Len(hay) - Len(needle)) :
        \A j \in 1..Len(needle) : Lower(hay[k + j]) = Lower(needle[j])

---------------------------------------------------------------------------
(* ContextExtractor: the Lexical Fact Matcher *)

\* /my (?:favorite|fav) (\w+) is ([\w\s]+?)(?:\.|$|,)/i
FavoriteMatchAt(text, i) ==
    /\ TokIs(text, i, "my")
    /\ TokIn(text, i + 1, {"favorite", "fav"})
    /\ i + 2 <= Len(text) /\ IsWord(text[i + 2])
    /\ TokIs(text, i + 3, "is")
    /\ CaptureOk(text, i + 4)

\* /my name is (\w+)/i
NameMatchAt(text, i) ==
    /\ TokIs(text, i, "my")
    /\ TokIs(text, i + 1, "name")
    /\ TokIs(text, i + 2, "is")
    /\ i + 3 <= Len(text) /\ WordPrefix(text[i + 3]) # ""

\* quickFactPatterns[0]: regex and extract
FavoriteFact(text) ==
    LET i == FirstIndex({ k \in 1..Len(text) : FavoriteMatchAt(text, k) }) IN
    IF i = 0 THEN <<>>
    ELSE << [ key        |-> "favorite_" \o text[i + 2],
              value      |-> Capture(text, i + 4),
              confidence |-> 90 ] >>

\* quickFactPatterns[1]: regex and extract
NameFact(text) ==
    LET i == FirstIndex({ k \in 1..Len(text) : NameMatchAt(text, k) }) IN
    IF i = 0 THEN <<>>
    ELSE << [ key        |-> "user_name",
              value      |-> << WordPrefix(text[i + 3]) >>,
              confidence |-> 95 ] >>

\* A slip: the loop stops at the first pattern that matches.
ExtractQuickFactsFirstOnly(text) ==
    IF FavoriteFact(text) # <<>> THEN FavoriteFact(text) ELSE NameFact(text)

\* extractQuickFacts: every pattern in order, one fact for each that matches.
ExtractQuickFacts(text) == FavoriteFact(text) \o NameFact(text)

---------------------------------------------------------------------------
(* ContextExtractor: the Entity Extraction Client *)

\* typeMap
TypeMap ==
    [ PERSON |-> "person", ORGANIZATION |-> "organization", ORG |-> "organization",
      LOCATION |-> "place", LOC |-> "place", GPE |-> "place",
      DATE |-> "date", TIME |-> "time", PRODUCT |-> "product", EVENT |-> "event",
      FOOD |-> "food", WORK_OF_ART |-> "media" ]

\* phi4Type.toLowerCase()
LowerType(t) ==
    CASE t = "WIDGET" -> "widget"
      [] t = "Person" -> "person"
      [] OTHER        -> t

\* typeMap is an object literal: besides its own keys, typeMap[k] finds the
\* properties it inherits from Object.prototype, all of them truthy
\* (functions, and the prototype itself for "__proto__").
InheritedKeys == { "constructor", "toString", "valueOf", "hasOwnProperty", "__proto__" }

\* The value typeMap[k] has for an inherited key: not a string.
Inherited(k) == "Object.prototype." \o k

\* normalizeEntityType(phi4Type), phi4Type a string:
\* typeMap[phi4Type] || phi4Type.toLowerCase()
NormalizeEntityType(t) ==
    IF t \in DOMAIN TypeMap THEN TypeMap[t]
    ELSE IF t \in InheritedKeys THEN Inherited(t)
    ELSE LowerType(t)

\* A null element of the entities array.
NullEntity == [ isNull |-> TRUE ]
IsNull(e) == "isNull" \in DOMAIN e

\* The map callback throws a TypeError: entity.type of null, or
\* undefined.toLowerCase() for an entity without a type.
NormalizeThrows(e) == IsNull(e) \/ e.type = {}

\* a || b
OrElse(a, b, falsy) == IF a # {} /\ a # {falsy} THEN a ELSE b

\* The map callback of extractEntitiesViaPhi4.
Candidate(e) ==
    [ type       |-> NormalizeEntityType(CHOOSE t \in e.type : TRUE),
      value      |-> OrElse(e.text, e.value, <<>>),
      confidence |-> OrElse(e.confidence, {80}, 0),
      startPos   |-> e.start,
      endPos     |-> e.end ]

\* `response.data?.status === 'ok' && response.data?.data?.entities`
ExpectedFormat(o) ==
    /\ o.kind = "response"
    /\ o.status = {"ok"}
    /\ o.entities.shape \in {"array", "object"}

\* The statements of extractEntitiesViaPhi4's try block throw: axios rejects
\* (timeout, transport error), entities has no map method, or the callback
\* throws on an element.
Phi4TryThrows(o) ==
    \/ o.kind \in {"timeout", "error"}
    \/ /\ ExpectedFormat(o)
       /\ \/ o.entities.shape = "object"
          \/ \E k \in 1..Len(o.entities.items) : NormalizeThrows(o.entities.items[k])

\* A slip: the client without its catch lets the error through.
ExtractEntitiesViaPhi4NoCatch(o) ==
    IF Phi4TryThrows(o) THEN [ raised |-> TRUE, entities |-> <<>> ]
    ELSE IF ExpectedFormat(o)
      THEN [ raised   |-> FALSE,
             entities |-> [ k \in 1..Len(o.entities.items) |-> Candidate(o.entities.items[k]) ] ]
      ELSE [ raised |-> FALSE, entities |-> <<>> ]

\* extractEntitiesViaPhi4(text), given how the remote call ends.
ExtractEntitiesViaPhi4(o) ==
    IF Phi4TryThrows(o) THEN [ raised |-> FALSE, entities |-> <<>> ]
    ELSE IF ExpectedFormat(o)
      THEN [ raised   |-> FALSE,
             entities |-> [ k \in 1..Len(o.entities.items) |-> Candidate(o.entities.items[k]) ] ]
      ELSE [ raised |-> FALSE, entities |-> <<>> ]

---------------------------------------------------------------------------
(* ContextExtractor: the Inferred Fact Deriver *)

\* /I (?:love|like|enjoy|prefer) ([\w\s]+?)(?:\.|$|,)/i
LoveMatchAt(text, i) ==
    /\ TokIs(text, i, "i")
    /\ TokIn(text, i + 1, {"love", "like", "enjoy", "prefer"})
    /\ CaptureOk(text, i + 2)

\* /I(?:'m| am) from ([\w\s]+?)(?:\.|$|,)/i
FromMatchAt(text, i) ==
    \/ /\ TokIs(text, i, "i'm")
       /\ TokIs(text, i + 1, "from")
       /\ CaptureOk(text, i + 2)
    \/ /\ TokIs(text, i, "i")
       /\ TokIs(text, i + 1, "am")
       /\ TokIs(text, i + 2, "from")
       /\ CaptureOk(text, i + 3)

\* Where the span captured by the from-pattern starts.
FromSpanAt(text, i) == IF TokIs(text, i, "i'm") THEN i + 2 ELSE i + 3

TheValue(e) == CHOOSE v \in e.value : TRUE

\* e => value.toLowerCase().includes(e.value.toLowerCase()): find stops at e,
\* by a match or by the TypeError of an undefined e.value.
LoveStops(span, e) == e.value = {} \/ Includes(span, TheValue(e))

\* e => e.type === 'place' && location.toLowerCase().includes(e.value.toLowerCase())
FromStops(span, e) == e.type = "place" /\ (e.value = {} \/ Includes(span, TheValue(e)))

\* A slip: the last entity the predicate holds of instead of the first.
FindLast(entities, S) ==
    IF S = {} THEN [ threw |-> FALSE, found |-> {} ]
    ELSE LET e == entities[CHOOSE x \in S : \A y \in S : y <= x] IN
         IF e.value = {} THEN [ threw |-> TRUE, found |-> {} ]
         ELSE [ threw |-> FALSE, found |-> {e} ]

\* entities.find(predicate): the first entity the predicate stops at, S
\* being the positions where it stops.
Find(entities, S) ==
    IF S = {} THEN [ threw |-> FALSE, found |-> {} ]
    ELSE LET e == entities[Min(S)] IN
         IF e.value = {} THEN [ threw |-> TRUE, found |-> {} ]
         ELSE [ threw |-> FALSE, found |-> {e} ]

\* The "I love X" block of extractFactsViaLLM.
LoveFacts(text, entities) ==
    LET i == FirstIndex({ k \in 1..Len(text) : LoveMatchAt(text, k) }) IN
    IF i = 0 THEN [ threw |-> FALSE, facts |-> <<>> ]
    ELSE LET f == Find(entities, { k \in 1..Len(entities) : LoveStops(Capture(text, i + 2), entities[k]) }) IN
         IF f.threw THEN [ threw |-> TRUE, facts |-> <<>> ]
         ELSE IF f.found = {} THEN [ threw |-> FALSE, facts |-> <<>> ]
         ELSE LET e == CHOOSE x \in f.found : TRUE IN
              [ threw |-> FALSE,
                facts |-> << [ key        |-> "likes_" \o e.type,
                               value      |-> TheValue(e),
                               confidence |-> 85 ] >> ]

\* The "I'm from X" block of extractFactsViaLLM.
FromFacts(text, entities) ==
    LET i == FirstIndex({ k \in 1..Len(text) : FromMatchAt(text, k) }) IN
    IF i = 0 THEN [ threw |-> FALSE, facts |-> <<>> ]
    ELSE LET f == Find(entities, { k \in 1..Len(entities) :
                                    FromStops(Capture(text, FromSpanAt(text, i)), entities[k]) }) IN
         IF f.threw THEN [ threw |-> TRUE, facts |-> <<>> ]
         ELSE IF f.found = {} THEN [ threw |-> FALSE, facts |-> <<>> ]
         ELSE LET e == CHOOSE x \in f.found : TRUE IN
              [ threw |-> FALSE,
                facts |-> << [ key        |-> "home_location",
                               value      |-> TheValue(e),
                               confidence |-> 90 ] >> ]

\* extractFactsViaLLM(text, entities): the two blocks in order; an error in
\* the first leaves the second unrun.
ExtractFactsViaLLM(text, entities) ==
    LET love == LoveFacts(text, entities) IN
    IF love.threw THEN [ threw |-> TRUE, facts |-> <<>> ]
    ELSE LET from == FromFacts(text, entities) IN
         IF from.threw THEN [ threw |-> TRUE, facts |-> <<>> ]
         ELSE [ threw |-> FALSE, facts |-> love.facts \o from.facts ]

---------------------------------------------------------------------------
(* ContextExtractor.extract: the Extraction Coordinator *)

\* The positions of `s` in increasing order.
RECURSIVE Ascending(_)
Ascending(S) ==
    IF S = {} THEN <<>> ELSE << Min(S) >> \o Ascending(S \ {Min(S)})

\* A slip: the map is keyed by the fact's value instead of its key.
UniqueFactsByValue(all) ==
    LET firsts == { i \in 1..Len(all) : \A j \in 1..(i - 1) : all[j].value # all[i].value }
        last(i) == CHOOSE j \in 1..Len(all) :
                      /\ all[j].value = all[i].value
                      /\ \A k \in (j + 1)..Len(all) : all[k].value # all[i].value
        order == Ascending(firsts)
    IN  [ n \in 1..Len(order) |-> all[last(order[n])] ]

\* Array.from(new Map(allFacts.map(f => [f.key, f])).values()): a key keeps the
\* place of its first fact and the content of its last.
UniqueFacts(all) ==
    LET firsts == { i \in 1..Len(all) : \A j \in 1..(i - 1) : all[j].key # all[i].key }
        last(i) == CHOOSE j \in 1..Len(all) :
                      /\ all[j].key = all[i].key
                      /\ \A k \in (j + 1)..Len(all) : all[k].key # all[i].key
        order == Ascending(firsts)
    IN  [ n \in 1..Len(order) |-> all[last(order[n])] ]

\* The result of the try block.
FullResult(quick, entities, llmFacts, sid, ts) ==
    [ raised      |-> FALSE,
      facts       |-> UniqueFacts(quick \o llmFacts),
      entities    |-> entities,
      sessionId   |-> sid,
      extractedAt |-> ts,
      method      |-> "phi4_llm" ]

\* A slip: extract without its catch lets the error through.
NoCatchResult(text, sid, ts) ==
    [ raised |-> TRUE, facts |-> <<>>, entities |-> <<>>, sessionId |-> sid,
      extractedAt |-> ts, method |-> "none" ]

\* The result of the catch block.
FallbackResult(text, sid, ts) ==
    [ raised      |-> FALSE,
      facts       |-> ExtractQuickFacts(text),
      entities    |-> <<>>,
      sessionId   |-> sid,
      extractedAt |-> ts,
      method      |-> "fallback" ]

---------------------------------------------------------------------------
(* Inputs of extract: texts and the ways the remote entity call ends *)

MaxEntities == 2

Texts ==
    { << "hello" >>,
      << "my", "favorite", "Color", "is", "dark", "blue", ".", "ok" >>,
      << "My", "name", "is", "Bob", ",", "I", "love", "Paris", ",",
         "I", "am", "from", "PARIS" >>,
      << "my", "fav", "food", "is", "pizza", ".", "my", "name", "is", "Al" >>,
      << "my", "name", "is", "Al", ",", "my", "fav", "food", "is", "pizza" >>,
      << "I", "like", "New", "York", ".", "I'm", "from", "paris" >>,
      << "I", "enjoy", "pizza", "!" >>,
      << "I", "prefer", "Pizza", "in", "Paris" >> }

SessionIds == { "s1", "s2" }

\* Elements of the entities array of a response: { type, text|value,
\* confidence?, start?, end? }, any of them possibly missing, or null.
RawEntities ==
    { [ type |-> {"GPE"}, text |-> {<< "Paris" >>}, value |-> {},
        confidence |-> {95}, start |-> {}, end |-> {} ],
      [ type |-> {"LOC"}, text |-> {}, value |-> {<< "paris" >>},
        confidence |-> {}, start |-> {}, end |-> {} ],
      [ type |-> {"FOOD"}, text |-> {<< "pizza" >>}, value |-> {<< "Pizza" >>},
        confidence |-> {0}, start |-> {}, end |-> {} ],
      [ type |-> {"WIDGET"}, text |-> {<< "New", "York" >>}, value |-> {},
        confidence |-> {}, start |-> {}, end |-> {} ],
      [ type |-> {"PERSON"}, text |-> {}, value |-> {},
        confidence |-> {}, start |-> {}, end |-> {} ],
      [ type |-> {"PERSON"}, text |-> {<<>>}, value |-> {<<>>},
        confidence |-> {}, start |-> {}, end |-> {} ],
      [ type |-> {}, text |-> {<< "Bob" >>}, value |-> {},
        confidence |-> {}, start |-> {}, end |-> {} ],
      [ type |-> {"constructor"}, text |-> {<< "Al" >>}, value |-> {},
        confidence |-> {}, start |-> {}, end |-> {} ],
      NullEntity }

EntityArrays == UNION { [1..n -> RawEntities] : n \in 0..MaxEntities }

\* How axios.post(`${phi4Endpoint}/entity.extract`, ...) ends: it rejects
\* after the 5 s timeout or on a transport error, or it resolves with a body
\* whose status and entities are there or not.
Outcomes ==
    { [ kind |-> "timeout" ], [ kind |-> "error" ] }
    \cup { [ kind |-> "response", status |-> st, entities |-> [ shape |-> sh ] ] :
              st \in { {}, {"ok"}, {"error"} }, sh \in { "missing", "object" } }
    \cup { [ kind |-> "response", status |-> {"error"},
             entities |-> [ shape |-> "array", items |-> <<>> ] ] }
    \cup { [ kind |-> "response", status |-> {"ok"},
             entities |-> [ shape |-> "array", items |-> a ] ] : a \in EntityArrays }

---------------------------------------------------------------------------
(* ContextExtractor.extract, one step per await *)

\* A slip: the entity call is not awaited, step 3 starts on the pending
\* promise's place with no entities.
ExtractNoAwait(text, sid) ==
    /\ ex.pc = "idle"
    /\ ex' = [ pc |-> "derive", text |-> text, sessionId |-> sid,
               quickFacts |-> ExtractQuickFacts(text),
               outcome |-> [ kind |-> "pending" ],
               phi4raised |-> FALSE, entities |-> <<>> ]
    /\ UNCHANGED <<entityVars, now, searchVars, otherVars>>

\* extract(text, sessionId) up to its first await: step 1 computes the quick
\* facts, step 2 sends the entity.extract request.
Extract(text, sid) ==
    /\ ex.pc = "idle"
    /\ ex' = [ pc |-> "phi4", text |-> text, sessionId |-> sid,
               quickFacts |-> ExtractQuickFacts(text) ]
    /\ UNCHANGED <<entityVars, now, searchVars, otherVars>>

\* The remote call ends and extractEntitiesViaPhi4 settles; were it to
\* reject, extract's catch would take over.
Phi4Settle(o) ==
    /\ ex.pc = "phi4"
    /\ LET r == ExtractEntitiesViaPhi4(o) IN
       ex' = IF r.raised
               THEN [ pc |-> "returned", text |-> ex.text, sessionId |-> ex.sessionId,
                      quickFacts |-> ex.quickFacts, outcome |-> o,
                      phi4raised |-> TRUE, entities |-> <<>>, llmFacts |-> <<>>,
                      escaped |-> TRUE,
                      result |-> FallbackResult(ex.text, ex.sessionId, now) ]
               ELSE [ pc |-> "derive", text |-> ex.text, sessionId |-> ex.sessionId,
                      quickFacts |-> ex.quickFacts, outcome |-> o,
                      phi4raised |-> FALSE, entities |-> r.entities ]
    /\ UNCHANGED <<entityVars, now, searchVars, otherVars>>

\* Step 3 and the return: extractFactsViaLLM, then the merged result, or the
\* catch block when step 3 threw.
Derive ==
    /\ ex.pc = "derive"
    /\ LET llm == ExtractFactsViaLLM(ex.text, ex.entities) IN
       ex' = [ pc |-> "returned", text |-> ex.text, sessionId |-> ex.sessionId,
               quickFacts |-> ex.quickFacts, outcome |-> ex.outcome,
               phi4raised |-> FALSE, entities |-> ex.entities,
               llmFacts |-> llm.facts,
               escaped |-> llm.threw,
               result |-> IF llm.threw
                            THEN FallbackResult(ex.text, ex.sessionId, now)
                            ELSE FullResult(ex.quickFacts, ex.entities, llm.facts,
                                            ex.sessionId, now) ]
    /\ UNCHANGED <<entityVars, now, searchVars, otherVars>>

\* The caller takes the result.
ExtractReturn ==
    /\ ex.pc = "returned"
    /\ ex' = NoExtract
    /\ UNCHANGED <<entityVars, now, searchVars, otherVars>>

ExtractNext ==
    \/ \E text \in Texts, sid \in SessionIds : Extract(text, sid)
    \/ \E o \in Outcomes : Phi4Settle(o)
    \/ Derive
    \/ ExtractReturn
    \/ Tick

SpecExtract == Init /\ [][ExtractNext]_vars

---------------------------------------------------------------------------
(* Semantic search: vectors and similarity *)

Max(S) == CHOOSE x \in S : \A y \in S : x >= y

RECURSIVE Dot(_, _)
Dot(a, b) == IF a = <<>> THEN 0 ELSE Head(a) * Head(b) + Dot(Tail(a), Tail(b))

\* Math.sqrt, on the sums of squares that the vectors of the model give.
Sqrt(n) == CHOOSE r \in 0..n : r * r = n

\* A slip: vectors of different lengths score 0 instead of raising.
CosineSimilarityLenient(vecA, vecB) ==
    IF Len(vecA) # Len(vecB) THEN [ threw |-> FALSE, value |-> 0 ]
    ELSE LET normA == Sqrt(Dot(vecA, vecA))
             normB == Sqrt(Dot(vecB, vecB))
         IN  IF normA = 0 \/ normB = 0 THEN [ threw |-> FALSE, value |-> 0 ]
             ELSE [ threw |-> FALSE,
                    value |-> (Dot(vecA, vecB) * 100) \div (normA * normB) ]

\* cosineSimilarity(vecA, vecB) in hundredths; `threw` for the Error of
\* vectors of different lengths.
CosineSimilarity(vecA, vecB) ==
    IF Len(vecA) # Len(vecB) THEN [ threw |-> TRUE, value |-> 0 ]
    ELSE LET normA == Sqrt(Dot(vecA, vecA))
             normB == Sqrt(Dot(vecB, vecB))
         IN  IF normA = 0 \/ normB = 0 THEN [ threw |-> FALSE, value |-> 0 ]
             ELSE [ threw |-> FALSE,
                    value |-> (Dot(vecA, vecB) * 100) \div (normA * normB) ]

---------------------------------------------------------------------------
(* Semantic search: the messages of a session and the request *)

MaxMessages == 3
MaxLimit == 3
MaxRecent == 2

DefaultLimit == 5
DefaultMinSimilarity == 50
DefaultIncludeRecent == 3

\* What column embedding of a message holds: NULL, a text that is not JSON,
\* or a vector (of the query's length or not).
NoEmbedding == [ kind |-> "null" ]
Embeddings ==
    { NoEmbedding, [ kind |-> "text" ] }
    \cup { [ kind |-> "vector", vec |-> v ] :
              v \in { << 1, 0 >>, << 3, 4 >>, << 0, 0 >>, << 1 >> } }

\* Messages are numbered in the order they were added; two added in the same
\* instant share their created_at.
CreatedAt(i) == (i + 1) \div 2

MessageRow(i, sid, emb) ==
    [ id |-> i, session_id |-> sid, content |-> "hi", role |-> "user",
      created_at |-> CreatedAt(i), embedding |-> emb ]

\* A message of another session, in every table.
OtherSessionRow == MessageRow(0, "s2", [ kind |-> "vector", vec |-> << 1, 0 >> ])

MessageTables ==
    { { MessageRow(i, "s1", f[i]) : i \in DOMAIN f } \cup { OtherSessionRow } :
         f \in UNION { [1..m -> Embeddings] : m \in 0..MaxMessages } }

MinSimilarities == { 0, 50, 80 }

\* The payload of a search request; limit, minSimilarity and includeRecent
\* may be left out.
Payloads ==
    { [ sessionId |-> {"s1"}, query |-> {"q"}, limit |-> {l},
        minSimilarity |-> {ms}, includeRecent |-> {r} ] :
          l \in 0..MaxLimit, ms \in MinSimilarities, r \in 0..MaxRecent }
    \cup { [ sessionId |-> {"s1"}, query |-> {"q"}, limit |-> {},
             minSimilarity |-> {}, includeRecent |-> {} ],
           [ sessionId |-> {}, query |-> {"q"}, limit |-> {},
             minSimilarity |-> {}, includeRecent |-> {} ] }

\* How the embedding.generate request ends: axios rejects, the response has
\* no data object, or the response's data carries an embedding or none.
EmbeddingOutcomes ==
    { [ kind |-> "error" ],
      [ kind |-> "nodata" ],
      [ kind |-> "response", embedding |-> {} ],
      [ kind |-> "response", embedding |-> {<< 1, 0 >>} ] }

---------------------------------------------------------------------------
(* searchMessages *)

\* `= default` in the destructuring of the payload
Default(field, default) == IF field = {} THEN default ELSE CHOOSE x \in field : TRUE

\* Array.prototype.slice: a negative index counts from the end.
SliceIndex(k, n) == IF k < 0 THEN Max({n + k, 0}) ELSE Min({k, n})

\* s.slice(start, end)
Slice(s, start, end) ==
    LET st == SliceIndex(start, Len(s))
        en == SliceIndex(end, Len(s))
    IN  IF st >= en THEN <<>> ELSE SubSeq(s, st + 1, en)

\* s.slice(start)
SliceFrom(s, start) == Slice(s, start, Len(s))

\* SELECT ... WHERE session_id = ? ORDER BY created_at DESC: the rows of the
\* session, newest first, rows of equal created_at in any order.
Loaded(rows, sid) ==
    LET mine == { r \in rows : r.session_id = sid }
        n    == Cardinality(mine)
    IN  { p \in [1..n -> mine] :
            /\ \A i, j \in 1..n : i # j => p[i] # p[j]
            /\ \A i, j \in 1..n : i < j => p[i].created_at >= p[j].created_at }

\* The parsed embedding of a row: none for NULL and for a text JSON.parse
\* rejects (the catch only warns).
ParseEmbedding(emb) == IF emb.kind = "vector" THEN {emb.vec} ELSE {}

\* The map callback throws: cosineSimilarity reads queryEmbedding.length of
\* undefined, or finds the lengths different.
ScoreThrows(msg, q) ==
    LET embedding == ParseEmbedding(msg.embedding) IN
    /\ embedding # {}
    /\ \/ q = {}
       \/ CosineSimilarity(CHOOSE v \in q : TRUE, CHOOSE v \in embedding : TRUE).threw

\* The map callback of scoredMessages.
ScoreMessage(msg, q) ==
    LET embedding == ParseEmbedding(msg.embedding) IN
    [ id           |-> msg.id,
      sessionId    |-> msg.session_id,
      text         |-> msg.content,
      sender       |-> msg.role,
      timestamp    |-> msg.created_at,
      similarity   |-> IF embedding = {} THEN 0
                       ELSE CosineSimilarity(CHOOSE v \in q : TRUE,
                                             CHOOSE v \in embedding : TRUE).value,
      hasEmbedding |-> embedding # {} ]

\* .sort((a, b) => b.similarity - a.similarity): descending, equal
\* similarities keeping their order.
RECURSIVE SortBySimilarity(_)
SortBySimilarity(s) ==
    IF s = <<>> THEN <<>>
    ELSE LET top == Max({ s[i].similarity : i \in 1..Len(s) })
             i   == Min({ k \in 1..Len(s) : s[k].similarity = top })
         IN  << s[i] >> \o SortBySimilarity(SubSeq(s, 1, i - 1) \o SubSeq(s, i + 1, Len(s)))

Tag(s, reason) ==
    [ i \in 1..Len(s) |->
        [ id |-> s[i].id, sessionId |-> s[i].sessionId, text |-> s[i].text,
          sender |-> s[i].sender, timestamp |-> s[i].timestamp,
          similarity |-> s[i].similarity, hasEmbedding |-> s[i].hasEmbedding,
          reason |-> reason ] ]

\* scoredMessages.slice(0, includeRecent)
RecentMessages(scored, includeRecent) == Slice(scored, 0, includeRecent)

\* A slip: the recent window is not skipped.
SemanticMatchesNoSkip(scored, limit, minSimilarity, includeRecent) ==
    LET Enough(m) == m.similarity >= minSimilarity IN
    Slice(SortBySimilarity(SelectSeq(scored, Enough)), 0, limit - includeRecent)

\* A slip: the matches are cut to size without being sorted.
SemanticMatchesUnsorted(scored, limit, minSimilarity, includeRecent) ==
    LET Enough(m) == m.similarity >= minSimilarity IN
    Slice(SelectSeq(SliceFrom(scored, includeRecent), Enough), 0, limit - includeRecent)

\* scoredMessages.slice(includeRecent).filter(...).sort(...).slice(0, limit - includeRecent)
SemanticMatches(scored, limit, minSimilarity, includeRecent) ==
    LET Enough(m) == m.similarity >= minSimilarity IN
    Slice(SortBySimilarity(SelectSeq(SliceFrom(scored, includeRecent), Enough)),
          0, limit - includeRecent)

\* What searchMessages does with the loaded messages: the empty result, the
\* error thrown while scoring, or the combined result.
SearchResult(messages, q, limit, minSimilarity, includeRecent) ==
    IF messages = <<>>
      THEN [ raised |-> FALSE, messages |-> <<>>, count |-> 0, method |-> "semantic" ]
    ELSE IF \E i \in 1..Len(messages) : ScoreThrows(messages[i], q)
      THEN [ raised |-> TRUE, messages |-> <<>>, count |-> 0, method |-> "semantic" ]
    ELSE LET scored   == [ i \in 1..Len(messages) |-> ScoreMessage(messages[i], q) ]
             recent   == RecentMessages(scored, includeRecent)
             semantic == SemanticMatches(scored, limit, minSimilarity, includeRecent)
             combined == Tag(recent, "recent") \o Tag(semantic, "semantic")
         IN  [ raised   |-> FALSE,
               messages |-> combined,
               count    |-> Len(combined),
               method   |-> "semantic",
               stats    |-> [ totalMessages |-> Len(messages),
                              recentCount   |-> Len(recent),
                              semanticCount |-> Len(semantic),
                              messagesWithEmbeddings |->
                                  Cardinality({ i \in 1..Len(scored) : scored[i].hasEmbedding }) ] ]

\* searchMessages(payload) up to its first await: the defaults, the check of
\* sessionId and query, the embedding request.
SearchMessages(payload) ==
    /\ srch.pc = "idle"
    /\ srch' = IF payload.sessionId = {} \/ payload.query = {}
                THEN [ pc |-> "raised", payload |-> payload ]
                ELSE [ pc |-> "embedding", payload |-> payload,
                       sessionId     |-> CHOOSE x \in payload.sessionId : TRUE,
                       limit         |-> Default(payload.limit, DefaultLimit),
                       minSimilarity |-> Default(payload.minSimilarity, DefaultMinSimilarity),
                       includeRecent |-> Default(payload.includeRecent, DefaultIncludeRecent) ]
    /\ UNCHANGED <<entityVars, now, extractVars, conversation_messages, otherVars>>

\* generateEmbedding throws: axios rejected, or response.data.data.embedding
\* was read off a response without data (a TypeError inside its try).
GenerateEmbeddingThrows(o) == o.kind \in {"error", "nodata"}

\* A slip: the failure is swallowed and the search goes on without a query
\* embedding.
EmbeddingSettleSwallow(o) ==
    /\ srch.pc = "embedding"
    /\ srch' = [ pc |-> "query", payload |-> srch.payload,
                 sessionId |-> srch.sessionId, limit |-> srch.limit,
                 minSimilarity |-> srch.minSimilarity,
                 includeRecent |-> srch.includeRecent,
                 outcome |-> o,
                 queryEmbedding |-> IF GenerateEmbeddingThrows(o) THEN {} ELSE o.embedding ]
    /\ UNCHANGED <<entityVars, now, extractVars, conversation_messages, otherVars>>

\* generateEmbedding settles: it throws when the request failed, else it
\* hands back response.data.data.embedding and the SELECT is sent.
EmbeddingSettle(o) ==
    /\ srch.pc = "embedding"
    /\ srch' = IF GenerateEmbeddingThrows(o)
                THEN [ pc |-> "raised", payload |-> srch.payload, outcome |-> o ]
                ELSE [ pc |-> "query", payload |-> srch.payload,
                       sessionId |-> srch.sessionId, limit |-> srch.limit,
                       minSimilarity |-> srch.minSimilarity,
                       includeRecent |-> srch.includeRecent,
                       outcome |-> o,
                       queryEmbedding |-> o.embedding ]
    /\ UNCHANGED <<entityVars, now, extractVars, conversation_messages, otherVars>>

\* The SELECT hands back the session's messages and the rest of searchMessages
\* runs to its return or to the error it rethrows.
QuerySettle ==
    /\ srch.pc = "query"
    /\ \E messages \in Loaded(conversation_messages, srch.sessionId) :
          LET result == SearchResult(messages, srch.queryEmbedding, srch.limit,
                                     srch.minSimilarity, srch.includeRecent)
          IN  srch' = [ pc |-> IF result.raised THEN "raised" ELSE "returned",
                        payload |-> srch.payload,
                        sessionId |-> srch.sessionId, limit |-> srch.limit,
                        minSimilarity |-> srch.minSimilarity,
                        includeRecent |-> srch.includeRecent,
                        outcome |-> srch.outcome,
                        queryEmbedding |-> srch.queryEmbedding,
                        loaded |-> messages,
                        result |-> result ]
    /\ UNCHANGED <<entityVars, now, extractVars, conversation_messages, otherVars>>

\* The SELECT fails: query() rejects and searchMessages rethrows.
QueryError ==
    /\ srch.pc = "query"
    /\ srch' = [ pc |-> "raised", payload |-> srch.payload, outcome |-> srch.outcome ]
    /\ UNCHANGED <<entityVars, now, extractVars, conversation_messages, otherVars>>

\* The caller takes the result or the error.
SearchReturn ==
    /\ srch.pc \in {"returned", "raised"}
    /\ srch' = NoSearch
    /\ UNCHANGED <<entityVars, now, extractVars, conversation_messages, otherVars>>

\* The messages the session holds when the search is made.
SearchInit ==
    /\ EntityInit
    /\ now = 0
    /\ ex = NoExtract
    /\ conversation_messages \in MessageTables
    /\ srch = NoSearch
    /\ OtherInit

SearchNext ==
    \/ \E payload \in Payloads : SearchMessages(payload)
    \/ \E o \in EmbeddingOutcomes : EmbeddingSettle(o)
    \/ QuerySettle
    \/ QueryError
    \/ SearchReturn

SpecSearch == SearchInit /\ [][SearchNext]_vars

---------------------------------------------------------------------------
(* ContextHandler.getEntities *)

MaxRows == 3

\* What a row of the table may be: of the session asked for or of another,
\* a person or a place, mentioned once or twice, last at 0 or 1.
RowKinds ==
    [ session_id : {"s1", "s2"}, entity_type : {"person", "place"},
      mention_count : 1..2, last_mentioned_at : 0..1 ]
        \ [ session_id : {"s2"}, entity_type : {"place"},
            mention_count : 1..2, last_mentioned_at : 0..1 ]

\* The tables getEntities may meet: rows as the Entity Store writes them.
EntityTables ==
    { { [ id |-> i, session_id |-> f[i].session_id, entity_type |-> f[i].entity_type,
          entity_value |-> "e", metadata |-> "{}", first_mentioned_at |-> 0,
          last_mentioned_at |-> f[i].last_mentioned_at,
          mention_count |-> f[i].mention_count ] : i \in DOMAIN f } :
        f \in UNION { [1..n -> RowKinds] : n \in 0..MaxRows } }

\* The optional entityType argument.
EntityTypeArgs == { {}, {"person"}, {"place"} }

\* WHERE session_id = ?, and AND entity_type = ? when entityType is given
ListedRows(rows, sessionId, entityType) ==
    { r \in rows : /\ r.session_id = sessionId
                   /\ entityType # {} => r.entity_type \in entityType }

\* ORDER BY mention_count DESC, last_mentioned_at DESC: r may come before q.
Before(r, q) ==
    \/ r.mention_count > q.mention_count
    \/ r.mention_count = q.mention_count /\ r.last_mentioned_at >= q.last_mentioned_at

\* A slip: the rows come back ordered by last_mentioned_at alone.
OrderedRowsByTime(rows) ==
    LET n == Cardinality(rows) IN
    { p \in [1..n -> rows] :
         /\ \A i, j \in 1..n : i # j => p[i] # p[j]
         /\ \A i, j \in 1..n : i < j => p[i].last_mentioned_at >= p[j].last_mentioned_at }

\* The orders the database may hand the rows back in: each time one of the
\* rows no other row must precede, rows equal in both columns in any order.
RECURSIVE OrderedRows(_)
OrderedRows(rows) ==
    IF rows = {} THEN { <<>> }
    ELSE UNION { { <<r>> \o p : p \in OrderedRows(rows \ {r}) } :
                    r \in { x \in rows : \A y \in rows : Before(x, y) } }

\* getEntities(sessionId, entityType): the promise executor issues the SELECT.
GetEntities(sessionId, entityType) ==
    /\ listing.pc = "idle"
    /\ listing' = [ pc |-> "all", sessionId |-> sessionId, entityType |-> entityType ]
    /\ UNCHANGED <<entityVars, now, extractVars, searchVars, ingestVars, cosineVars>>

\* db.all's callback with the rows: resolve(rows).
ListResolve ==
    /\ listing.pc = "all"
    /\ \E rows \in OrderedRows(ListedRows(session_entities, listing.sessionId,
                                           listing.entityType)) :
          listing' = [ pc |-> "resolved", sessionId |-> listing.sessionId,
                       entityType |-> listing.entityType, rows |-> rows ]
    /\ UNCHANGED <<entityVars, now, extractVars, searchVars, ingestVars, cosineVars>>

\* db.all's callback with an error: reject(err).
ListReject ==
    /\ listing.pc = "all"
    /\ listing' = [ pc |-> "rejected", sessionId |-> listing.sessionId,
                    entityType |-> listing.entityType ]
    /\ UNCHANGED <<entityVars, now, extractVars, searchVars, ingestVars, cosineVars>>

\* The caller takes the settled promise.
ListReturn ==
    /\ listing.pc \in {"resolved", "rejected"}
    /\ listing' = NoListing
    /\ UNCHANGED <<entityVars, now, extractVars, searchVars, ingestVars, cosineVars>>

\* The table as the Entity Store left it, no addEntity call running.
ListInit ==
    /\ session_entities \in EntityTables
    /\ nextId = Cardinality(session_entities) + 1
    /\ call = [c \in Callers |-> Idle]
    /\ started = 0
    /\ succ = [t \in Triples |-> 0]
    /\ overlap = [t \in Triples |-> FALSE]
    /\ firstAt = [t \in Triples |-> 0]
    /\ now = 1
    /\ ex = NoExtract
    /\ conversation_messages = {}
    /\ srch = NoSearch
    /\ OtherInit

ListNext ==
    \/ \E entityType \in EntityTypeArgs : GetEntities("s1", entityType)
    \/ ListResolve
    \/ ListReject
    \/ ListReturn

SpecList == ListInit /\ [][ListNext]_vars

---------------------------------------------------------------------------
(* cosineSimilarity on its own *)

\* Vectors of up to three components, the zero vectors among them, with
\* whole-number magnitudes.
Vectors ==
    { <<>>, << 0 >>, << 1 >>, << 2 >>, << -1 >>, << -2 >>,
      << 0, 0 >>, << 1, 0 >>, << 0, 1 >>, << 3, 4 >>, << 4, 3 >>, << -3, 4 >>, << 0, -2 >>,
      << 0, 0, 0 >>, << 1, 2, 2 >>, << 2, -1, 2 >> }

\* cosineSimilarity(vecA, vecB) is evaluated.
Cosine(vecA, vecB) ==
    /\ cos.pc = "idle"
    /\ cos' = [ pc |-> "done", vecA |-> vecA, vecB |-> vecB,
                result |-> CosineSimilarity(vecA, vecB) ]
    /\ UNCHANGED <<entityVars, now, extractVars, searchVars, ingestVars, listVars>>

\* The caller takes the number or the error.
CosineReturn ==
    /\ cos.pc = "done"
    /\ cos' = NoCosine
    /\ UNCHANGED <<entityVars, now, extractVars, searchVars, ingestVars, listVars>>

CosineNext ==
    \/ \E vecA, vecB \in Vectors : Cosine(vecA, vecB)
    \/ CosineReturn

SpecCosine == Init /\ [][CosineNext]_vars

---------------------------------------------------------------------------
(* Message ingestion and the extraction request: inputs and tables *)

MaxRequests == 1

\* Texts of messages: one without facts, one with a lexical fact and two
\* facts derived from a place entity.
IngestTexts ==
    { << "hello" >>,
      << "My", "name", "is", "Bob", ",", "I", "love", "Paris", ",",
         "I", "am", "from", "PARIS" >> }

\* Entities the remote call may name: a place, and a person without text or
\* value.
IngestEntities ==
    { [ type |-> {"GPE"}, text |-> {<< "Paris" >>}, value |-> {},
        confidence |-> {95}, start |-> {}, end |-> {} ],
      [ type |-> {"PERSON"}, text |-> {}, value |-> {},
        confidence |-> {}, start |-> {}, end |-> {} ] }

\* How the remote entity call ends during ingestion.
IngestOutcomes ==
    { [ kind |-> "timeout" ] }
    \cup { [ kind |-> "response", status |-> {"ok"},
             entities |-> [ shape |-> "array", items |-> a ] ] :
              a \in UNION { [1..n -> IngestEntities] : n \in 0..MaxEntities } }

\* The payload of POST /context.extract: text and sessionId may be missing,
\* or the payload itself.
ExtractPayloads ==
    { [ given |-> TRUE, text |-> t, sessionId |-> sid ] :
         t \in { {} } \cup { {x} : x \in IngestTexts }, sid \in { {}, {"s1"} } }
    \cup { [ given |-> FALSE, text |-> {}, sessionId |-> {} ] }

\* The request lacks text or sessionId.
Lacking(payload) == payload.text = {} \/ payload.sessionId = {}

\* extract(text, sessionId) from call to return, the remote call ending as o.
Extraction(text, sid, o, ts) ==
    LET r == ExtractEntitiesViaPhi4(o) IN
    IF r.raised THEN FallbackResult(text, sid, ts)
    ELSE LET llm == ExtractFactsViaLLM(text, r.entities) IN
         IF llm.threw THEN FallbackResult(text, sid, ts)
         ELSE FullResult(ExtractQuickFacts(text), r.entities, llm.facts, sid, ts)

\* The items extractAndStore walks through: the facts, then the entities.
StoreItems(extraction) ==
    [ k \in 1..Len(extraction.facts) |-> [ kind |-> "fact", item |-> extraction.facts[k] ] ]
    \o [ k \in 1..Len(extraction.entities) |->
            [ kind |-> "entity", item |-> extraction.entities[k] ] ]

\* INSERT INTO session_context (id, session_id, context_type, context_data, created_at)
ContextRow(id, sid, fact, messageId, ts) ==
    [ id |-> id, session_id |-> sid, context_type |-> "fact",
      context_data |-> [ key |-> fact.key, value |-> fact.value,
                         confidence |-> fact.confidence, sourceMessageId |-> messageId ],
      created_at |-> ts ]

\* The (sessionId, type, value) an extracted entity is stored under; the value
\* may be undefined.
EntityTriple(sid, e) == << sid, e.type, e.value >>

\* INSERT INTO conversation_messages (id, session_id, content, role, created_at, metadata)
NewMessageRow(id, sid, text, sender, ts) ==
    [ id |-> id, session_id |-> sid, content |-> text, role |-> sender,
      created_at |-> ts, embedding |-> NoEmbedding ]

\* The duplicate check: a message of the session with the same text and
\* sender created within the last 5 seconds, a tick of the clock being longer.
Duplicates(rows, sid, text, sender, ts) ==
    { r \in rows : /\ r.session_id = sid
                   /\ r.content = text
                   /\ r.role = sender
                   /\ r.created_at > ts - 1 }

---------------------------------------------------------------------------
(* addMessage and POST /context.extract, one step per await *)

ingestFrame == <<started, succ, overlap, firstAt, call, now, extractVars, srch, listVars, cosineVars,
                 is_active, op>>

\* No request is running, `served` of them done.
IdleRequest(served) ==
    [ pc |-> "idle", served |-> served, kind |-> "none", payload |-> {},
      text |-> <<>>, sessionId |-> "", sender |-> "", messageId |-> {},
      countBefore |-> 0, extraction |-> {}, items |-> <<>>, i |-> 0,
      attempts |-> <<>>, found |-> {}, status |-> 0, raised |-> FALSE,
      isDuplicate |-> FALSE ]

\* addMessage(payload) with a string text and all three parameters: up to the
\* duplicate check's SELECT.
AddMessage(text, sender) ==
    /\ req.pc = "idle"
    /\ req.served < MaxRequests
    /\ req' = [req EXCEPT !.pc = "dupcheck", !.kind = "addMessage", !.text = text,
                          !.sessionId = "s1", !.sender = sender,
                          !.countBefore = conversation_sessions["s1"]]
    /\ UNCHANGED <<session_entities, nextId, conversation_messages, session_context,
                   conversation_sessions, ingestFrame>>

\* A slip: the answer of the duplicate check is not looked at.
DuplicateCheckIgnored ==
    /\ req.pc = "dupcheck"
    /\ req' = [req EXCEPT !.pc = "insert", !.messageId = {nextId}]
    /\ nextId' = nextId + 1
    /\ UNCHANGED <<session_entities, conversation_messages, session_context,
                   conversation_sessions, ingestFrame>>

\* The duplicate check answers: a duplicate is reported with its id, else the
\* message id is made and the INSERT is sent.
DuplicateCheck ==
    /\ req.pc = "dupcheck"
    /\ LET dups == Duplicates(conversation_messages, req.sessionId, req.text, req.sender, now) IN
       IF dups # {}
         THEN /\ \E d \in dups :
                    req' = [req EXCEPT !.pc = "done", !.messageId = {d.id}, !.status = 200,
                                       !.isDuplicate = TRUE]
              /\ UNCHANGED nextId
         ELSE /\ req' = [req EXCEPT !.pc = "insert", !.messageId = {nextId}]
              /\ nextId' = nextId + 1
    /\ UNCHANGED <<session_entities, conversation_messages, session_context,
                   conversation_sessions, ingestFrame>>

\* The INSERT of the message runs; the UPDATE of the session is sent.
InsertMessage ==
    /\ req.pc = "insert"
    /\ conversation_messages' = conversation_messages \cup
          { NewMessageRow(CHOOSE m \in req.messageId : TRUE, req.sessionId, req.text,
                          req.sender, now) }
    /\ req' = [req EXCEPT !.pc = "count"]
    /\ UNCHANGED <<session_entities, nextId, session_context, conversation_sessions, ingestFrame>>

\* A slip: the session's message_count is left as it was.
CountMessageSkipped ==
    /\ req.pc = "count"
    /\ req' = [req EXCEPT !.pc = IF req.sender = "user" THEN "extract" ELSE "done",
                          !.status = 200]
    /\ UNCHANGED <<session_entities, nextId, conversation_messages, session_context,
                   conversation_sessions, ingestFrame>>

\* UPDATE conversation_sessions SET message_count = message_count + 1 runs;
\* for a user message extractAndStore is called, else addMessage returns.
CountMessage ==
    /\ req.pc = "count"
    /\ conversation_sessions' =
          [conversation_sessions EXCEPT ![req.sessionId] = @ + 1]
    /\ req' = [req EXCEPT !.pc = IF req.sender = "user" THEN "extract" ELSE "done",
                          !.status = 200]
    /\ UNCHANGED <<session_entities, nextId, conversation_messages, session_context, ingestFrame>>

\* One of addMessage's own statements fails: its catch rethrows.
MessageDbError ==
    /\ req.pc \in {"dupcheck", "insert", "count"}
    /\ req' = [req EXCEPT !.pc = "done", !.raised = TRUE, !.status = 500]
    /\ UNCHANGED <<session_entities, nextId, conversation_messages, session_context,
                   conversation_sessions, ingestFrame>>

\* A slip: the route hands whatever it got to extractAndStore, which fails
\* on a missing text and goes on without a sessionId.
ContextExtractUnchecked(payload) ==
    /\ req.pc = "idle"
    /\ req.served < MaxRequests
    /\ req' = IF payload.text = {}
                THEN [req EXCEPT !.pc = "done", !.kind = "route", !.payload = {payload},
                                 !.raised = TRUE, !.status = 500]
                ELSE [req EXCEPT !.pc = "extract", !.kind = "route", !.payload = {payload},
                                 !.text = CHOOSE t \in payload.text : TRUE,
                                 !.sessionId = IF payload.sessionId = {} THEN "undefined"
                                               ELSE CHOOSE x \in payload.sessionId : TRUE]
    /\ UNCHANGED <<session_entities, nextId, conversation_messages, session_context,
                   conversation_sessions, ingestFrame>>

\* POST /context.extract: destructuring a missing payload throws (500), a
\* missing text or sessionId is answered 400, else extractAndStore is called.
ContextExtract(payload) ==
    /\ req.pc = "idle"
    /\ req.served < MaxRequests
    /\ req' = IF ~payload.given
                THEN [req EXCEPT !.pc = "done", !.kind = "route", !.payload = {payload},
                                 !.raised = TRUE, !.status = 500]
              ELSE IF payload.text = {} \/ payload.sessionId = {}
                THEN [req EXCEPT !.pc = "done", !.kind = "route", !.payload = {payload},
                                 !.status = 400]
                ELSE [req EXCEPT !.pc = "extract", !.kind = "route", !.payload = {payload},
                                 !.text = CHOOSE t \in payload.text : TRUE,
                                 !.sessionId = CHOOSE x \in payload.sessionId : TRUE]
    /\ UNCHANGED <<session_entities, nextId, conversation_messages, session_context,
                   conversation_sessions, ingestFrame>>

---------------------------------------------------------------------------
(* ContextHandler.extractAndStore, one step per await *)

\* The item the loops of extractAndStore are at.
AtItem(kind) ==
    /\ req.pc = "store"
    /\ req.i <= Len(req.items)
    /\ req.items[req.i].kind = kind

\* The item has been dealt with, stored or not: on to the next.
Attempted(ok) ==
    [req EXCEPT !.pc = "store", !.i = req.i + 1, !.found = {},
                !.attempts = Append(req.attempts, [ index |-> req.i, ok |-> ok ])]

\* extract() returns and the loop over the facts begins.
ExtractSettle(o) ==
    /\ req.pc = "extract"
    /\ LET extraction == Extraction(req.text, req.sessionId, o, now) IN
       req' = [req EXCEPT !.pc = "store", !.extraction = {extraction},
                          !.items = StoreItems(extraction), !.i = 1]
    /\ UNCHANGED <<session_entities, nextId, conversation_messages, session_context,
                   conversation_sessions, ingestFrame>>

\* addContext resolves: the fact is a new row of session_context.
StoreFact ==
    /\ AtItem("fact")
    /\ session_context' = Append(session_context,
                                  ContextRow(nextId, req.sessionId, req.items[req.i].item,
                                             req.messageId, now))
    /\ nextId' = nextId + 1
    /\ req' = Attempted(TRUE)
    /\ UNCHANGED <<session_entities, conversation_messages, conversation_sessions, ingestFrame>>

\* addEntity's SELECT answers with a row, or with none.
EntityLookup ==
    /\ AtItem("entity")
    /\ LET rows == RowsFor(session_entities,
                            EntityTriple(req.sessionId, req.items[req.i].item)) IN
       IF rows = {} THEN req' = [req EXCEPT !.pc = "entityInsert"]
       ELSE \E r \in rows : req' = [req EXCEPT !.pc = "entityUpdate", !.found = {r}]
    /\ UNCHANGED <<session_entities, nextId, conversation_messages, session_context,
                   conversation_sessions, ingestFrame>>

\* addEntity's UPDATE runs and addEntity resolves.
EntityUpdate ==
    /\ req.pc = "entityUpdate"
    /\ session_entities' =
          UpdateEntityRows(session_entities, (CHOOSE r \in req.found : TRUE).id, now)
    /\ req' = Attempted(TRUE)
    /\ UNCHANGED <<nextId, conversation_messages, session_context, conversation_sessions,
                   ingestFrame>>

\* addEntity's INSERT runs and addEntity resolves; entity_value is NOT NULL,
\* so an entity without a value cannot be inserted.
EntityInsert ==
    /\ req.pc = "entityInsert"
    /\ LET e == req.items[req.i].item IN
       /\ e.value # {}
       /\ session_entities' = session_entities \cup
             { InsertEntityRow(nextId, EntityTriple(req.sessionId, e),
                               [ confidence |-> e.confidence ], now) }
    /\ nextId' = nextId + 1
    /\ req' = Attempted(TRUE)
    /\ UNCHANGED <<conversation_messages, session_context, conversation_sessions, ingestFrame>>

\* A slip: the first failure ends the batch.
StoreFailAborts ==
    /\ \/ AtItem("fact")
       \/ AtItem("entity")
       \/ req.pc \in {"entityUpdate", "entityInsert"}
    /\ req' = [req EXCEPT !.pc = "done", !.found = {},
                          !.raised = req.kind = "route",
                          !.status = IF req.kind = "route" THEN 500 ELSE 200,
                          !.attempts = Append(req.attempts, [ index |-> req.i, ok |-> FALSE ])]
    /\ UNCHANGED <<session_entities, nextId, conversation_messages, session_context,
                   conversation_sessions, ingestFrame>>

\* addContext or addEntity rejects (any of their statements failed): the
\* catch inside the loop warns and the loop goes on.
StoreFail ==
    /\ \/ AtItem("fact")
       \/ AtItem("entity")
       \/ req.pc \in {"entityUpdate", "entityInsert"}
    /\ req' = Attempted(FALSE)
    /\ UNCHANGED <<session_entities, nextId, conversation_messages, session_context,
                   conversation_sessions, ingestFrame>>

\* Both loops are through: extractAndStore returns the extraction, the route
\* answers with it, addMessage returns the message.
StoreDone ==
    /\ req.pc = "store"
    /\ req.i > Len(req.items)
    /\ req' = [req EXCEPT !.pc = "done", !.status = 200]
    /\ UNCHANGED <<session_entities, nextId, conversation_messages, session_context,
                   conversation_sessions, ingestFrame>>

\* The client has its answer.
RequestReturn ==
    /\ req.pc = "done"
    /\ req' = IdleRequest(req.served + 1)
    /\ UNCHANGED <<session_entities, nextId, conversation_messages, session_context,
                   conversation_sessions, ingestFrame>>

\* Time passes between two requests; within a request every statement reads
\* the same clock.
TickBetweenRequests ==
    /\ req.pc = "idle"
    /\ Tick

\* The message a session may hold from an earlier addMessage whose
\* extraction stored nothing.
EarlierMessage == NewMessageRow(0, "s1", << "hello" >>, "user", 0)

\* A session without context or entities, with no message or with the
\* earlier one.
IngestInit ==
    /\ EntityInit
    /\ now = 0
    /\ ex = NoExtract
    /\ conversation_messages \in { {}, {EarlierMessage} }
    /\ srch = NoSearch
    /\ session_context = <<>>
    /\ conversation_sessions = [ sid \in {"s1"} |-> Cardinality(conversation_messages) ]
    /\ req = IdleRequest(0)
    /\ listing = NoListing
    /\ cos = NoCosine
    /\ is_active = [ sid \in {"s1"} |-> TRUE ]
    /\ op = [ c \in Callers |-> Idle ]

IngestNext ==
    \/ \E text \in IngestTexts, sender \in {"user", "assistant"} : AddMessage(text, sender)
    \/ DuplicateCheck
    \/ InsertMessage
    \/ CountMessage
    \/ MessageDbError
    \/ \E payload \in ExtractPayloads : ContextExtract(payload)
    \/ \E o \in IngestOutcomes : ExtractSettle(o)
    \/ StoreFact
    \/ EntityLookup
    \/ EntityUpdate
    \/ EntityInsert
    \/ StoreFail
    \/ StoreDone
    \/ RequestReturn
    \/ TickBetweenRequests

SpecIngest == IngestInit /\ [][IngestNext]_vars

---------------------------------------------------------------------------
(* The message and session handlers under concurrent callers, one step per *)
(* awaited statement                                                       *)

\* What the handlers leave alone.
StoreFrame ==
    UNCHANGED <<session_entities, call, succ, overlap, firstAt, extractVars, srch,
                session_context, req, listVars, cosineVars>>

\* addMessage({sessionId: 's1', text, sender: 'assistant'}) up to the
\* duplicate check's SELECT; an assistant message starts no extraction.
StartAddMessage(c, text) ==
    /\ op[c].pc = "idle"
    /\ started < MaxCalls
    /\ started' = started + 1
    /\ op' = [op EXCEPT ![c] = [ pc |-> "dupcheck", sessionId |-> "s1", text |-> text,
                                 sender |-> "assistant" ]]
    /\ UNCHANGED <<conversation_messages, conversation_sessions, is_active, nextId, now>>
    /\ StoreFrame

\* The duplicate check answers: a duplicate is returned with its id, else the
\* message id and the timestamp are made and the INSERT is sent.
AddDuplicateCheck(c) ==
    /\ op[c].pc = "dupcheck"
    /\ LET dups == Duplicates(conversation_messages, op[c].sessionId, op[c].text,
                              op[c].sender, now) IN
       IF dups # {}
         THEN /\ \E d \in dups :
                    op' = [op EXCEPT ![c] = [ pc |-> "resolved", messageId |-> d.id,
                                              isDuplicate |-> TRUE ]]
              /\ UNCHANGED nextId
         ELSE /\ op' = [op EXCEPT ![c] = [ pc |-> "insert", sessionId |-> op[c].sessionId,
                                           text |-> op[c].text, sender |-> op[c].sender,
                                           messageId |-> nextId, timestamp |-> now ]]
              /\ nextId' = nextId + 1
    /\ UNCHANGED <<conversation_messages, conversation_sessions, is_active, started, now>>
    /\ StoreFrame

\* The INSERT of the message runs; the UPDATE of the session is sent.
AddInsert(c) ==
    /\ op[c].pc = "insert"
    /\ conversation_messages' = conversation_messages \cup
          { NewMessageRow(op[c].messageId, op[c].sessionId, op[c].text, op[c].sender,
                          op[c].timestamp) }
    /\ op' = [op EXCEPT ![c] = [ pc |-> "count", sessionId |-> op[c].sessionId,
                                 messageId |-> op[c].messageId ]]
    /\ UNCHANGED <<conversation_sessions, is_active, nextId, started, now>>
    /\ StoreFrame

\* UPDATE conversation_sessions SET message_count = message_count + 1
\* WHERE id = ? runs; addMessage returns the message.
AddCount(c) ==
    /\ op[c].pc = "count"
    /\ conversation_sessions' =
          [ sid \in DOMAIN conversation_sessions |->
              IF sid = op[c].sessionId THEN conversation_sessions[sid] + 1
              ELSE conversation_sessions[sid] ]
    /\ op' = [op EXCEPT ![c] = [ pc |-> "resolved", messageId |-> op[c].messageId,
                                 isDuplicate |-> FALSE ]]
    /\ UNCHANGED <<conversation_messages, is_active, nextId, started, now>>
    /\ StoreFrame

\* deleteMessage({messageId}) up to its SELECT.
DeleteMessage(c, messageId) ==
    /\ op[c].pc = "idle"
    /\ started < MaxCalls
    /\ started' = started + 1
    /\ op' = [op EXCEPT ![c] = [ pc |-> "select", messageId |-> messageId ]]
    /\ UNCHANGED <<conversation_messages, conversation_sessions, is_active, nextId, now>>
    /\ StoreFrame

\* The SELECT answers: without a row deleteMessage throws 'Message not
\* found', with one it keeps the row's session_id and sends the DELETE.
DeleteSelect(c) ==
    /\ op[c].pc = "select"
    /\ LET messages == { r \in conversation_messages : r.id = op[c].messageId } IN
       IF messages = {}
         THEN op' = [op EXCEPT ![c] = [ pc |-> "rejected" ]]
         ELSE \E r \in messages :
                 op' = [op EXCEPT ![c] = [ pc |-> "delete", messageId |-> op[c].messageId,
                                           sessionId |-> r.session_id ]]
    /\ UNCHANGED <<conversation_messages, conversation_sessions, is_active, nextId, started, now>>
    /\ StoreFrame

\* DELETE FROM conversation_messages WHERE id = ? runs, whether or not the
\* row is still there; the UPDATE of the session is sent.
DeleteRow(c) ==
    /\ op[c].pc = "delete"
    /\ conversation_messages' = { r \in conversation_messages : r.id # op[c].messageId }
    /\ op' = [op EXCEPT ![c] = [ pc |-> "uncount", messageId |-> op[c].messageId,
                                 sessionId |-> op[c].sessionId ]]
    /\ UNCHANGED <<conversation_sessions, is_active, nextId, started, now>>
    /\ StoreFrame

\* UPDATE conversation_sessions SET message_count = message_count - 1
\* WHERE id = ? runs; deleteMessage returns success.
DeleteCount(c) ==
    /\ op[c].pc = "uncount"
    /\ conversation_sessions' =
          [ sid \in DOMAIN conversation_sessions |->
              IF sid = op[c].sessionId THEN conversation_sessions[sid] - 1
              ELSE conversation_sessions[sid] ]
    /\ op' = [op EXCEPT ![c] = [ pc |-> "resolved", messageId |-> op[c].messageId ]]
    /\ UNCHANGED <<conversation_messages, is_active, nextId, started, now>>
    /\ StoreFrame

\* The ids createSession has for its new sessions, in the order of the calls.
NewSessionIds == << "s2", "s3", "s4", "s5", "s6" >>

\* createSession(payload): the id is made and the UPDATE that sets every
\* active session inactive is sent.
CreateSession(c) ==
    /\ op[c].pc = "idle"
    /\ started < MaxCalls
    /\ started' = started + 1
    /\ op' = [op EXCEPT ![c] = [ pc |-> "deactivate", kind |-> "create",
                                 sessionId |-> NewSessionIds[started + 1] ]]
    /\ UNCHANGED <<conversation_messages, conversation_sessions, is_active, nextId, now>>
    /\ StoreFrame

\* switchSession({sessionId}): the same UPDATE is sent.
SwitchSession(c, sessionId) ==
    /\ op[c].pc = "idle"
    /\ started < MaxCalls
    /\ started' = started + 1
    /\ op' = [op EXCEPT ![c] = [ pc |-> "deactivate", kind |-> "switch",
                                 sessionId |-> sessionId ]]
    /\ UNCHANGED <<conversation_messages, conversation_sessions, is_active, nextId, now>>
    /\ StoreFrame

\* UPDATE conversation_sessions SET is_active = false WHERE is_active = true
\* runs; the INSERT of the new session, or the UPDATE of the target, is sent.
Deactivate(c) ==
    /\ op[c].pc = "deactivate"
    /\ is_active' = [ sid \in DOMAIN is_active |-> FALSE ]
    /\ op' = [op EXCEPT ![c].pc = "activate"]
    /\ UNCHANGED <<conversation_messages, conversation_sessions, nextId, started, now>>
    /\ StoreFrame

\* createSession's INSERT of the new session with is_active true and
\* message_count 0, or switchSession's UPDATE ... SET is_active = true
\* WHERE id = ?, which changes no row when the id is not there.
Activate(c) ==
    /\ op[c].pc = "activate"
    /\ IF op[c].kind = "create"
         THEN /\ is_active' =
                    [ sid \in DOMAIN is_active \cup {op[c].sessionId} |->
                        sid = op[c].sessionId \/ (sid \in DOMAIN is_active /\ is_active[sid]) ]
              /\ conversation_sessions' =
                    [ sid \in DOMAIN conversation_sessions \cup {op[c].sessionId} |->
                        IF sid = op[c].sessionId THEN 0 ELSE conversation_sessions[sid] ]
         ELSE /\ is_active' =
                    [ sid \in DOMAIN is_active |-> sid = op[c].sessionId \/ is_active[sid] ]
              /\ UNCHANGED conversation_sessions
    /\ op' = [op EXCEPT ![c] = [ pc |-> "resolved", kind |-> op[c].kind,
                                 sessionId |-> op[c].sessionId ]]
    /\ UNCHANGED <<conversation_messages, nextId, started, now>>
    /\ StoreFrame

\* The statement the call waits for fails: the handler's catch rethrows.
\* Nothing is written by the failed statement.
OpFail(c) ==
    /\ op[c].pc \notin {"idle", "resolved", "rejected"}
    /\ op' = [op EXCEPT ![c] = [ pc |-> "rejected" ]]
    /\ UNCHANGED <<conversation_messages, conversation_sessions, is_active, nextId, started, now>>
    /\ StoreFrame

\* The caller takes the settled promise.
OpReturn(c) ==
    /\ op[c].pc \in {"resolved", "rejected"}
    /\ op' = [op EXCEPT ![c] = Idle]
    /\ UNCHANGED <<conversation_messages, conversation_sessions, is_active, nextId, started, now>>
    /\ StoreFrame

StoreNext ==
    \/ \E c \in Callers, text \in IngestTexts : StartAddMessage(c, text)
    \/ \E c \in Callers : AddDuplicateCheck(c)
    \/ \E c \in Callers : AddInsert(c)
    \/ \E c \in Callers : AddCount(c)
    \/ \E c \in Callers, messageId \in 1..(nextId - 1) : DeleteMessage(c, messageId)
    \/ \E c \in Callers : DeleteSelect(c)
    \/ \E c \in Callers : DeleteRow(c)
    \/ \E c \in Callers : DeleteCount(c)
    \/ \E c \in Callers : CreateSession(c)
    \/ \E c \in Callers, sessionId \in {"s1", "s2"} : SwitchSession(c, sessionId)
    \/ \E c \in Callers : Deactivate(c)
    \/ \E c \in Callers : Activate(c)
    \/ \E c \in Callers : OpFail(c)
    \/ \E c \in Callers : OpReturn(c)
    \/ Tick

SpecStore == Init /\ [][StoreNext]_vars

---------------------------------------------------------------------------
(* Claims about the Entity Store, specification Spec *)

\* Rows that are the same row (same id) before and after a step.
SameRow(r, q) == r.id = q.id

\* C1 (state part): while the calls for a triple have never overlapped, the
\* table holds no row for it before its first resolved call and exactly one
\* row after it, whose mention_count is the number of resolved calls and
\* whose first_mentioned_at is the time the first call wrote.
SequentialUpsertState ==
    \A t \in Triples :
        ~overlap[t] =>
            IF succ[t] = 0
              THEN RowsFor(session_entities, t) = {}
              ELSE /\ Cardinality(RowsFor(session_entities, t)) = 1
                   /\ \A r \in RowsFor(session_entities, t) :
                         /\ r.mention_count = succ[t]
                         /\ r.first_mentioned_at = firstAt[t]

\* C1 (step part): across every step, a row of a triple whose calls have not
\* overlapped keeps its first_mentioned_at and its last_mentioned_at does not
\* decrease.
SequentialUpsertStep ==
    \A t \in Triples :
        ~overlap'[t] =>
            \A r \in RowsFor(session_entities, t) :
                \A q \in RowsFor(session_entities', t) :
                    SameRow(r, q) =>
                        /\ q.first_mentioned_at = r.first_mentioned_at
                        /\ q.last_mentioned_at >= r.last_mentioned_at

\* C1: N >= 1 sequential successful addEntity calls for a triple with no row
\* leave exactly one row with mention_count = N, first_mentioned_at as
\* written by the first call and last_mentioned_at never decreasing.
C1_SequentialUpsert == []SequentialUpsertState /\ [][SequentialUpsertStep]_vars

\* C1 witness: three calls for one triple ran one after the other, the last
\* two through the UPDATE, at a later time than the first.
C1_Witness ==
    \E t \in Triples :
        /\ ~overlap[t]
        /\ succ[t] = 3
        /\ \E r \in RowsFor(session_entities, t) :
              r.mention_count = 3 /\ r.last_mentioned_at > r.first_mentioned_at

\* C2: under any interleaving of addEntity calls the table holds at most one
\* row per (session_id, entity_type, entity_value).
C2_AtMostOneRowPerTriple ==
    \A t \in Triples : Cardinality(RowsFor(session_entities, t)) <= 1

---------------------------------------------------------------------------
(* Claims about the Extraction Coordinator, specification SpecExtract *)

\* The remote call failed: timeout, transport error, or a response without
\* status 'ok' or without an entities array.
RemoteCallFailed(o) ==
    \/ o.kind \in {"timeout", "error"}
    \/ /\ o.kind = "response"
       /\ (o.status # {"ok"} \/ o.entities.shape # "array")

\* Normalizing some returned entity throws.
NormalizingFails(o) ==
    /\ o.kind = "response"
    /\ o.entities.shape = "array"
    /\ \E k \in 1..Len(o.entities.items) :
          LET e == o.entities.items[k] IN e = NullEntity \/ e.type = {}

\* C3: extract hands its caller a result and never raises; when an error
\* escaped the stages the result has method 'fallback', no entities, and the
\* facts the Lexical Fact Matcher gave for the text.
C3_ExtractNeverRaises ==
    ex.pc = "returned" =>
        /\ ~ex.result.raised
        /\ ex.escaped =>
              /\ ex.result.method = "fallback"
              /\ ex.result.entities = <<>>
              /\ ex.result.facts = ex.quickFacts

\* C3 witness: an error escaped stage 3 (an entity without a value met by
\* find) on a text that has lexical facts.
C3_Witness ==
    /\ ex.pc = "returned"
    /\ ex.escaped
    /\ ~ex.phi4raised
    /\ ex.entities # <<>>
    /\ ex.result.facts # <<>>

\* C4: whenever the remote entity call failed, the result extract returns has
\* no entities and method 'fallback'.
C4_RemoteFailureIsFallback ==
    (ex.pc = "returned" /\ RemoteCallFailed(ex.outcome)) =>
        /\ ~ex.result.raised
        /\ ex.result.entities = <<>>
        /\ ex.result.method = "fallback"

\* C5: extractEntitiesViaPhi4 never raises, and gives the empty sequence on a
\* timeout, a transport error, an unexpected response shape and an error
\* while normalizing an entity.
C5_EntityClientNeverRaises ==
    ex.pc \in {"derive", "returned"} =>
        /\ ~ex.phi4raised
        /\ (RemoteCallFailed(ex.outcome) \/ NormalizingFails(ex.outcome)) =>
              ex.entities = <<>>

\* C5 witness: the client has settled with no entities on a response whose
\* second entity could not be normalized.
C5_Witness ==
    /\ ex.pc = "derive"
    /\ ~RemoteCallFailed(ex.outcome)
    /\ NormalizingFails(ex.outcome)
    /\ Len(ex.outcome.entities.items) = 2
    /\ ex.outcome.entities.items[1] # NullEntity
    /\ ex.outcome.entities.items[1].type # {}
    /\ ex.entities = <<>>

\* C6: the facts of a returned result have pairwise different keys, every key
\* of `lexical facts followed by derived facts` is there, and the fact kept
\* for a key is the last one with that key in that sequence.
C6_FactsUniqueLastWins ==
    ex.pc = "returned" =>
        LET all   == ex.quickFacts \o ex.llmFacts
            facts == ex.result.facts
        IN  /\ \A i, j \in 1..Len(facts) : i # j => facts[i].key # facts[j].key
            /\ \A i \in 1..Len(all) : \E n \in 1..Len(facts) : facts[n].key = all[i].key
            /\ \A n \in 1..Len(facts) :
                  \E j \in 1..Len(all) :
                      /\ all[j] = facts[n]
                      /\ \A k \in (j + 1)..Len(all) : all[k].key # facts[n].key

\* C6 witness: a result merged from a lexical fact and two derived facts.
C6_Witness ==
    /\ ex.pc = "returned"
    /\ ex.result.method = "phi4_llm"
    /\ Len(ex.quickFacts) = 1
    /\ Len(ex.llmFacts) = 2
    /\ Len(ex.result.facts) = 3

---------------------------------------------------------------------------
(* Claims about the Semantic Retriever, specification SpecSearch *)

\* The entries of a returned result, and those tagged 'semantic'.
Returned == srch.pc = "returned"
Out == srch.result.messages
IsSemantic(e) == e.reason = "semantic"
SemanticOut == SelectSeq(Out, IsSemantic)

\* The size of the recent window over the loaded messages.
Window == Min({ srch.includeRecent, Len(srch.loaded) })

\* C7: the result holds at most `limit` messages, recent and semantic
\* together.
C7_TotalWithinLimit ==
    Returned => Len(Out) <= srch.limit

\* C8: with includeRecent >= limit the result has no entry tagged 'semantic'.
C8_NoSemanticWhenRecentCoversLimit ==
    (Returned /\ srch.includeRecent >= srch.limit) => SemanticOut = <<>>

\* C9: no message id twice; the recent entries come first and are the first
\* min(includeRecent, n) messages of the session, newest first; no semantic
\* entry is one of them.
C9_RecentFirstNoDuplicates ==
    Returned =>
        LET loaded == srch.loaded
            mine   == { r \in conversation_messages : r.session_id = srch.sessionId }
        IN  /\ \A i, j \in 1..Len(Out) : i # j => Out[i].id # Out[j].id
            /\ \A i, j \in 1..Len(Out) :
                  (Out[i].reason = "recent" /\ Out[j].reason = "semantic") => i < j
            /\ { loaded[i] : i \in 1..Len(loaded) } = mine
            /\ Len(loaded) = Cardinality(mine)
            /\ \A i \in 1..Window : \A j \in (Window + 1)..Len(loaded) :
                  loaded[i].created_at >= loaded[j].created_at
            /\ Len(Out) >= Window
            /\ \A i \in 1..Window : Out[i].reason = "recent" /\ Out[i].id = loaded[i].id
            /\ \A i \in (Window + 1)..Len(Out) :
                  /\ Out[i].reason = "semantic"
                  /\ \A j \in 1..Window : Out[i].id # loaded[j].id

\* C9 witness: two recent entries, created together, followed by a semantic
\* one.
C9_Witness ==
    /\ Returned
    /\ Len(Out) = 3
    /\ Out[1].reason = "recent" /\ Out[2].reason = "recent"
    /\ Out[2].timestamp = Out[3].timestamp
    /\ Out[3].reason = "semantic"

\* C10: every semantic entry has similarity >= minSimilarity; the semantic
\* entries are in non-increasing similarity order; each is a message outside
\* the recent window; no qualifying message outside the window that was left
\* out has a greater similarity than one that was taken; and when limit >=
\* includeRecent, limit - includeRecent of them are taken (all, when there are
\* fewer).
C10_SemanticTopBySimilarity ==
    Returned =>
        LET loaded == srch.loaded
            sim(i) == ScoreMessage(loaded[i], srch.queryEmbedding).similarity
            candidates == { i \in (Window + 1)..Len(loaded) : sim(i) >= srch.minSimilarity }
            taken == { i \in candidates :
                          \E n \in 1..Len(SemanticOut) : SemanticOut[n].id = loaded[i].id }
        IN  /\ \A n \in 1..Len(SemanticOut) : SemanticOut[n].similarity >= srch.minSimilarity
            /\ \A n, m \in 1..Len(SemanticOut) :
                  n < m => SemanticOut[n].similarity >= SemanticOut[m].similarity
            /\ \A n \in 1..Len(SemanticOut) :
                  \E i \in candidates :
                      loaded[i].id = SemanticOut[n].id /\ sim(i) = SemanticOut[n].similarity
            /\ \A i \in candidates \ taken : \A j \in taken : sim(i) <= sim(j)
            /\ srch.limit >= srch.includeRecent =>
                  Len(SemanticOut) = Min({ srch.limit - srch.includeRecent,
                                           Cardinality(candidates) })

\* C10 witness: of three qualifying messages outside the window the two most
\* similar are returned, the more similar first, though it is the older.
C10_Witness ==
    /\ Returned
    /\ srch.includeRecent = 0
    /\ srch.limit = 2
    /\ Len(srch.loaded) = 3
    /\ Len(SemanticOut) = 2
    /\ SemanticOut[1].similarity > SemanticOut[2].similarity
    /\ SemanticOut[1].timestamp < SemanticOut[2].timestamp
    /\ \A i \in 1..3 :
          ScoreMessage(srch.loaded[i], srch.queryEmbedding).similarity >= srch.minSimilarity

\* C11: a message without a stored embedding, or with one that cannot be
\* parsed, is never returned tagged 'semantic', whatever minSimilarity is.
C11_NoEmbeddingNeverSemantic ==
    Returned => \A n \in 1..Len(SemanticOut) : SemanticOut[n].hasEmbedding

\* The embedding request of the running search has settled.
EmbeddingSettled == "outcome" \in DOMAIN srch

\* C12: when generating the query's embedding failed, searchMessages raises
\* and hands back no result, also for a session without messages; and a
\* search never changes a stored message.
C12_EmbeddingFailureRaisesState ==
    (EmbeddingSettled /\ GenerateEmbeddingThrows(srch.outcome)) =>
        /\ srch.pc = "raised"
        /\ "result" \notin DOMAIN srch

---------------------------------------------------------------------------
(* More claims about the Entity Store, specification Spec *)

\* Caller c's UPDATE runs in this step.
UpdateRuns(c) == call[c].pc = "update" /\ call'[c].pc = "resolved"

\* C15: addEntity on a triple that exists changes, of the row it found, only
\* mention_count (+1) and last_mentioned_at (the current time); id,
\* first_mentioned_at and the stored metadata stay, whatever metadata the call
\* passed, and every other row stays as it is.
C15_UpdateFrameStep ==
    \A c \in Callers :
        UpdateRuns(c) =>
            LET id == call[c].existing.id IN
            /\ Cardinality(session_entities') = Cardinality(session_entities)
            /\ \A r \in session_entities :
                  IF r.id = id
                    THEN [r EXCEPT !.mention_count = r.mention_count + 1,
                                   !.last_mentioned_at = now] \in session_entities'
                    ELSE r \in session_entities'

\* C15: every step keeps that frame.
C15_UpdateFrame == [][C15_UpdateFrameStep]_vars

\* C15 witness: a call that passed metadata other than the stored one has run
\* its UPDATE.
C15_Witness ==
    \E c \in Callers :
        /\ call[c].pc = "resolved"
        /\ call[c].result.mention_count = 2
        /\ call[c].metadata # call[c].result.metadata

RECURSIVE SumCounts(_)
SumCounts(rows) ==
    IF rows = {} THEN 0
    ELSE LET r == CHOOSE x \in rows : TRUE IN r.mention_count + SumCounts(rows \ {r})

\* C16: no increment is lost under interleaving: the mention counts stored for
\* a triple add up to the number of addEntity calls resolved for it, so with
\* the one row that exists, k resolved calls raise its count by exactly k.
C16_NoLostIncrement ==
    \A t \in Triples : SumCounts(RowsFor(session_entities, t)) = succ[t]

\* C16 witness: two calls found the row at count 1, both ran their UPDATE, and
\* the row stands at 3.
C16_Witness ==
    /\ \A c \in Callers : call[c].pc = "resolved" /\ call[c].result.mention_count = 2
    /\ call["a"].triple = call["b"].triple
    /\ \E r \in session_entities : r.mention_count = 3

\* C17 (state part): every row has mention_count >= 1 and
\* last_mentioned_at >= first_mentioned_at.
C17_RowsWellFormed ==
    \A r \in session_entities :
        r.mention_count >= 1 /\ r.last_mentioned_at >= r.first_mentioned_at

\* C17 (step part): no row is removed, and no row's mention_count or
\* last_mentioned_at decreases.
C17_RowsOnlyGrow ==
    \A r \in session_entities :
        \E q \in session_entities' :
            /\ q.id = r.id
            /\ q.mention_count >= r.mention_count
            /\ q.last_mentioned_at >= r.last_mentioned_at

\* C17: both parts, in every state and across every step.
C17_EntitiesMonotone == []C17_RowsWellFormed /\ [][C17_RowsOnlyGrow]_vars

\* C17 witness: a row mentioned twice, the second time later, beside a row
\* mentioned once.
C17_Witness ==
    \E r, q \in session_entities :
        /\ r.mention_count = 2
        /\ r.last_mentioned_at > r.first_mentioned_at
        /\ q.mention_count = 1
        /\ q.id # r.id

---------------------------------------------------------------------------
(* Claims about getEntities, specification SpecList *)

\* C19: getEntities resolves with exactly the rows of the session, of the
\* entity type when one is given, each once, ordered by mention_count
\* descending and, among equal counts, by last_mentioned_at descending.
C19_ListingExactAndOrdered ==
    listing.pc = "resolved" =>
        LET rows == listing.rows
            want == { r \in session_entities :
                         /\ r.session_id = listing.sessionId
                         /\ \A type \in listing.entityType : r.entity_type = type }
        IN  /\ { rows[i] : i \in 1..Len(rows) } = want
            /\ Len(rows) = Cardinality(want)
            /\ \A i, j \in 1..Len(rows) :
                  i < j =>
                     /\ rows[i].mention_count >= rows[j].mention_count
                     /\ rows[i].mention_count = rows[j].mention_count =>
                           rows[i].last_mentioned_at >= rows[j].last_mentioned_at

\* C19 witness: a listing by type that left a row of another type out and
\* put the row mentioned more often before the one mentioned later.
C19_Witness ==
    /\ listing.pc = "resolved"
    /\ listing.entityType = {"person"}
    /\ Len(listing.rows) = 2
    /\ listing.rows[1].mention_count > listing.rows[2].mention_count
    /\ listing.rows[1].last_mentioned_at < listing.rows[2].last_mentioned_at
    /\ \E r \in session_entities : r.session_id = listing.sessionId /\ r.entity_type = "place"

---------------------------------------------------------------------------
(* Claims about cosineSimilarity, specification SpecCosine *)

\* The magnitude of v is exactly zero.
ZeroMagnitude(v) == \A i \in 1..Len(v) : v[i] = 0

\* C20: cosineSimilarity raises whenever the lengths differ, and for equal
\* lengths gives 0 without raising whenever either vector has magnitude zero.
C20_CosineGuards ==
    cos.pc = "done" =>
        /\ Len(cos.vecA) # Len(cos.vecB) => cos.result.threw
        /\ (Len(cos.vecA) = Len(cos.vecB)
              /\ (ZeroMagnitude(cos.vecA) \/ ZeroMagnitude(cos.vecB))) =>
                 ~cos.result.threw /\ cos.result.value = 0

\* C20 witness: the zero vector of two components against a vector that is
\* not zero gave 0.
C20_Witness ==
    /\ cos.pc = "done"
    /\ cos.vecA = << 0, 0 >>
    /\ cos.vecB = << 3, 4 >>
    /\ ~cos.result.threw
    /\ cos.result.value = 0

---------------------------------------------------------------------------
(* Claims about ingestion and the extraction request, specification SpecIngest *)

\* extractAndStore has the extraction and is storing it, or is through.
Storing == req.extraction # {}
TheExtraction == CHOOSE x \in req.extraction : TRUE

\* The fact is a row of session_context.
FactPersisted(fact) ==
    \E n \in 1..Len(session_context) :
        /\ session_context[n].session_id = req.sessionId
        /\ session_context[n].context_data.key = fact.key
        /\ session_context[n].context_data.value = fact.value
        /\ session_context[n].context_data.sourceMessageId = req.messageId

\* The entity is a row of session_entities.
EntityPersisted(e) ==
    \E r \in session_entities :
        /\ r.session_id = req.sessionId
        /\ r.entity_type = e.type
        /\ r.entity_value = e.value

\* C13: extractAndStore attempts every fact and then every entity of the
\* extraction once, in sequence order, whatever failed before; what was stored
\* is in the tables; and it returns the extraction without raising.
C13_BatchSurvivesFailures ==
    Storing =>
        LET facts    == TheExtraction.facts
            entities == TheExtraction.entities
            att      == req.attempts
        IN  /\ Len(req.items) = Len(facts) + Len(entities)
            /\ \A k \in 1..Len(facts) :
                  req.items[k].kind = "fact" /\ req.items[k].item = facts[k]
            /\ \A k \in 1..Len(entities) :
                  /\ req.items[Len(facts) + k].kind = "entity"
                  /\ req.items[Len(facts) + k].item = entities[k]
            /\ Len(att) <= Len(req.items)
            /\ \A k \in 1..Len(att) : att[k].index = k
            /\ \A k \in 1..Len(att) :
                  att[k].ok =>
                     IF req.items[k].kind = "fact"
                       THEN FactPersisted(req.items[k].item)
                       ELSE EntityPersisted(req.items[k].item)
            /\ req.pc = "done" =>
                  /\ Len(att) = Len(req.items)
                  /\ ~req.raised
                  /\ req.status = 200

\* C13 witness: the first fact could not be stored, a later fact and an
\* entity were, and extractAndStore has returned.
C13_Witness ==
    /\ req.pc = "done"
    /\ Storing
    /\ Len(req.attempts) >= 3
    /\ ~req.attempts[1].ok
    /\ \E k, n \in 2..Len(req.attempts) :
          /\ req.attempts[k].ok /\ req.items[k].kind = "fact"
          /\ req.attempts[n].ok /\ req.items[n].kind = "entity"

\* addMessage for a user message is past its own statements.
UserMessageStored ==
    /\ req.kind = "addMessage"
    /\ req.sender = "user"
    /\ \/ req.pc \in {"extract", "store", "entityInsert", "entityUpdate"}
       \/ req.pc = "done" /\ Storing

\* C14: for a user message, whatever fails in extracting or in storing, the
\* message row stays inserted, the session's message_count stays one higher,
\* and addMessage returns the new message id without raising.
C14_IngestionSurvivesExtraction ==
    UserMessageStored =>
        /\ \E r \in conversation_messages :
              /\ req.messageId = {r.id}
              /\ r.session_id = req.sessionId
              /\ r.content = req.text
              /\ r.role = "user"
        /\ conversation_sessions[req.sessionId] = req.countBefore + 1
        /\ req.pc = "done" => ~req.raised /\ req.status = 200

\* C14 witness: addMessage has returned for a user message though the
\* extraction fell back to the lexical facts and a fact could not be stored.
C14_Witness ==
    /\ UserMessageStored
    /\ req.pc = "done"
    /\ TheExtraction.method = "fallback"
    /\ \E k \in 1..Len(req.attempts) : ~req.attempts[k].ok

\* The request to /context.extract lacks text or sessionId.
LackingRequest(r) == r.kind = "route" /\ \E payload \in r.payload : Lacking(payload)

\* C18 (state part): such a request is answered with an error, and nothing
\* was extracted or attempted for it.
C18_RejectedState ==
    LackingRequest(req) =>
        /\ req.pc = "done"
        /\ req.status \in {400, 500}
        /\ req.extraction = {}
        /\ req.attempts = <<>>

\* C18 (step part): the step that takes such a request leaves the tables and
\* the extractor as they are.
C18_RejectedStep ==
    (req.pc = "idle" /\ LackingRequest(req')) =>
        UNCHANGED <<session_context, session_entities, conversation_messages,
                    conversation_sessions, ex>>

\* C18: an extraction request without text or sessionId is rejected before
\* any work is done.
C18_LackingRequestRejected == []C18_RejectedState /\ [][C18_RejectedStep]_vars

\* C18 witness: a request with a text and no sessionId has been answered 400.
C18_Witness ==
    /\ req.pc = "done"
    /\ req.kind = "route"
    /\ req.status = 400
    /\ \E payload \in req.payload : payload.text # {} /\ payload.sessionId = {}


---------------------------------------------------------------------------
(* Claims about the Inferred Fact Deriver, specification SpecExtract *)

\* The span the template of a derived fact captured in the text: the
\* from-template's for a home_location fact, the love-template's otherwise.
SpanOf(text, fact) ==
    IF fact.key = "home_location"
      THEN Capture(text, FromSpanAt(text, FirstIndex({ k \in 1..Len(text) : FromMatchAt(text, k) })))
      ELSE Capture(text, FirstIndex({ k \in 1..Len(text) : LoveMatchAt(text, k) }) + 2)

\* The candidates whose value is a case-insensitive substring of the span;
\* with placeOnly, for a home_location fact, only those of type 'place'.
Qualifying(entities, text, fact, placeOnly) ==
    { k \in 1..Len(entities) :
        /\ entities[k].value # {}
        /\ Includes(SpanOf(text, fact), TheValue(entities[k]))
        /\ (placeOnly /\ fact.key = "home_location") => entities[k].type = "place" }

\* Every derived fact has a qualifying candidate and carries the value of
\* the first of them; no candidates, no derived facts.
FactsFromFirst(placeOnly) ==
    (ex.pc = "returned" /\ ~ex.phi4raised) =>
        /\ \A n \in 1..Len(ex.llmFacts) :
              LET f == ex.llmFacts[n]
                  Q == Qualifying(ex.entities, ex.text, f, placeOnly)
              IN  /\ Q # {}
                  /\ f.value = TheValue(ex.entities[Min(Q)])
                  /\ f.key # "home_location" => f.key = "likes_" \o ex.entities[Min(Q)].type
        /\ ex.entities = <<>> => ex.llmFacts = <<>>

\* C21 as stated: a derived fact is emitted only if some candidate's value is
\* a case-insensitive substring of the captured span, it is built from the
\* first such candidate, and an empty candidate list gives no facts.
C21_FactFromFirstSubstring == FactsFromFirst(FALSE)

\* C21 amended: the same, where for the "I'm from X" template only the
\* candidates of type 'place' count.
C21_FactFromFirstQualifying == FactsFromFirst(TRUE)

\* C21 witness: a home_location fact derived while two place candidates
\* with different values both lie in the captured span.
C21_Witness ==
    /\ ex.pc = "returned"
    /\ ~ex.escaped
    /\ Len(ex.entities) = 2
    /\ ex.entities[1].type = "place" /\ ex.entities[2].type = "place"
    /\ ex.entities[1].value # ex.entities[2].value
    /\ \E n \in 1..Len(ex.llmFacts) :
          /\ ex.llmFacts[n].key = "home_location"
          /\ Cardinality(Qualifying(ex.entities, ex.text, ex.llmFacts[n], TRUE)) = 2


---------------------------------------------------------------------------
(* Claims about the Entity Extraction Client's type table, SpecExtract *)

\* The raw entities of the response were all normalized.
Normalized ==
    /\ ex.pc \in {"derive", "returned"}
    /\ ExpectedFormat(ex.outcome)
    /\ ex.outcome.entities.shape = "array"
    /\ Len(ex.entities) = Len(ex.outcome.entities.items)

\* C22: every candidate's type is the table value of its raw type when the
\* raw type is in the table ('GPE', 'LOC', 'LOCATION' give 'place', 'ORG'
\* 'organization'), and the lower-cased raw type otherwise.
C22_TypeTableOrLowerCase ==
    Normalized =>
        \A k \in 1..Len(ex.entities) :
            LET t == CHOOSE x \in ex.outcome.entities.items[k].type : TRUE IN
            /\ t \in {"GPE", "LOC", "LOCATION"} => ex.entities[k].type = "place"
            /\ t \in {"ORG", "ORGANIZATION"} => ex.entities[k].type = "organization"
            /\ t \in DOMAIN TypeMap => ex.entities[k].type = TypeMap[t]
            /\ t \notin DOMAIN TypeMap => ex.entities[k].type = LowerType(t)


---------------------------------------------------------------------------
(* Claims about the phases of extract, specification SpecExtract *)

\* While the remote entity call is pending the lexical facts are there and
\* nothing has been derived.
PendingState ==
    ex.pc = "phi4" =>
        /\ ex.quickFacts = ExtractQuickFacts(ex.text)
        /\ DOMAIN ex \cap {"outcome", "entities", "llmFacts"} = {}

\* The call is issued with the lexical facts computed; it resolves with the
\* client's entities (the empty list on a soft failure); facts are derived
\* only by a step taken after that, from those entities.
PhaseStep ==
    /\ (ex.pc = "idle" /\ ex'.pc # "idle") =>
          /\ ex'.pc = "phi4"
          /\ ex'.quickFacts = ExtractQuickFacts(ex'.text)
    /\ (ex.pc = "phi4" /\ ex'.pc # "phi4") =>
          /\ ex'.pc = "derive"
          /\ "llmFacts" \notin DOMAIN ex'
          /\ ex'.entities = ExtractEntitiesViaPhi4(ex'.outcome).entities
          /\ ex'.quickFacts = ex.quickFacts
    /\ ("llmFacts" \in DOMAIN ex' /\ "llmFacts" \notin DOMAIN ex) =>
          /\ ex.pc = "derive"
          /\ ex.outcome \in Outcomes
          /\ ex'.llmFacts = ExtractFactsViaLLM(ex.text, ex.entities).facts

\* C23: within one extract() the three phases are strictly sequential: the
\* lexical facts are computed before the remote entity call is issued, fact
\* derivation starts only after the call has resolved (with entities or with
\* the soft-failure empty list) and never runs while it is pending.
C23_PhasesSequential == []PendingState /\ [][PhaseStep]_vars

\* C23 witness: an invocation that went through the three phases, with one
\* lexical fact and one fact derived from the resolved entities.
C23_Witness ==
    /\ ex.pc = "returned"
    /\ ex.outcome.kind = "response"
    /\ ~ex.escaped
    /\ Len(ex.quickFacts) = 1
    /\ Len(ex.llmFacts) = 1
    /\ ex.entities # <<>>


---------------------------------------------------------------------------
(* Claims about the Lexical Fact Matcher, specification SpecExtract *)

\* The rules that match somewhere in the text.
FavoriteRuleMatches(text) == \E k \in 1..Len(text) : FavoriteMatchAt(text, k)
NameRuleMatches(text) == \E k \in 1..Len(text) : NameMatchAt(text, k)

\* C24: the lexical facts of a call hold one fact for each rule that matches
\* the text and none for a rule that does not, in rule order, whatever the
\* other rule does: at most as many facts as rules, none when no rule
\* matches, and each with its rule's confidence (0.9 and 0.95).
C24_OneFactPerMatchingRule ==
    ex.pc # "idle" =>
        LET q    == ex.quickFacts
            fav  == FavoriteRuleMatches(ex.text)
            name == NameRuleMatches(ex.text)
        IN  /\ Len(q) <= 2
            /\ Len(q) = (IF fav THEN 1 ELSE 0) + (IF name THEN 1 ELSE 0)
            /\ fav => (q[1].key # "user_name" /\ q[1].confidence = 90)
            /\ name => (q[Len(q)].key = "user_name" /\ q[Len(q)].confidence = 95)

\* C24 witness: a text both rules match, with the two facts in rule order
\* although the name comes first in the text.
C24_Witness ==
    /\ ex.pc = "phi4"
    /\ FavoriteRuleMatches(ex.text) /\ NameRuleMatches(ex.text)
    /\ NameMatchAt(ex.text, 1)
    /\ Len(ex.quickFacts) = 2
    /\ ex.quickFacts[2].key = "user_name"


---------------------------------------------------------------------------
(* Claims about the record addEntity returns, specification Spec *)

\* C29: when a call's UPDATE has run, the record the call resolves with
\* carries the mention_count stored at that moment in the row it updated,
\* whatever other addEntity calls for the triple did in between.
C29_ReturnedCountStep ==
    \A c \in Callers :
        UpdateRuns(c) =>
            \A r \in session_entities' :
                r.id = call[c].existing.id =>
                    call'[c].result.mention_count = r.mention_count

\* C29: every step does so.
C29_ReturnedCountIsStored == [][C29_ReturnedCountStep]_vars


---------------------------------------------------------------------------
(* Claims about defective stored embeddings, specification SpecSearch *)

\* The stored embedding of a loaded message is defective for the query
\* vector q: a value that does not parse, or a vector of another length.
Defective(msg, q) ==
    \/ msg.embedding.kind = "text"
    \/ msg.embedding.kind = "vector" /\ Len(msg.embedding.vec) # Len(q)

\* C30: once the query embedding is there and the session's messages are
\* loaded, searchMessages returns a result: a message whose stored embedding
\* is defective never aborts the search, scores 0 where it is returned, and
\* is not in the semantic group (stated for a positive minSimilarity; what a
\* score of 0 does under minSimilarity <= 0 is C11's matter).
C30_DefectiveEmbeddingNeverAborts ==
    (/\ srch.pc \in {"returned", "raised"}
     /\ "loaded" \in DOMAIN srch
     /\ srch.queryEmbedding # {}) =>
        /\ srch.pc = "returned"
        /\ \A k \in 1..Len(srch.loaded) :
              Defective(srch.loaded[k], CHOOSE v \in srch.queryEmbedding : TRUE) =>
                  \A n \in 1..Len(Out) :
                      Out[n].id = srch.loaded[k].id =>
                          /\ Out[n].similarity = 0
                          /\ srch.minSimilarity > 0 => Out[n].reason # "semantic"


---------------------------------------------------------------------------
(* Claims about the duplicate check of addMessage, specification SpecIngest *)

\* The duplicates the check of the running addMessage finds.
FoundDuplicates ==
    IF req.kind = "addMessage" /\ req.pc = "dupcheck"
      THEN Duplicates(conversation_messages, req.sessionId, req.text, req.sender, now)
      ELSE {}

\* The duplicate check answers with a duplicate.
DuplicateFound == FoundDuplicates # {} /\ req'.pc # "dupcheck" /\ ~req'.raised

\* C27: when addMessage finds a message of the session with the same text
\* and sender created within the window, it returns that message's id with
\* isDuplicate = true, and from there on it writes nothing: no message row,
\* no change of message_count, no extraction, no context or entity row.
C27_DuplicateStep ==
    /\ DuplicateFound =>
          /\ req'.pc = "done"
          /\ req'.isDuplicate
          /\ req'.messageId \subseteq { d.id : d \in FoundDuplicates }
          /\ req'.messageId # {}
          /\ req'.extraction = {}
    /\ (DuplicateFound \/ req.isDuplicate) =>
          UNCHANGED <<conversation_messages, conversation_sessions, session_context,
                      session_entities, nextId>>

\* C27: every step of addMessage keeps to it.
C27_DuplicateChangesNothing == [][C27_DuplicateStep]_vars

\* C27 witness: a user message repeated within the window has been answered
\* as a duplicate; the session still holds one message and counts one.
C27_Witness ==
    /\ req.pc = "done"
    /\ req.isDuplicate
    /\ req.sender = "user"
    /\ req.messageId = {EarlierMessage.id}
    /\ conversation_messages = {EarlierMessage}
    /\ conversation_sessions["s1"] = 1


---------------------------------------------------------------------------
(* Claims about the message and session handlers under interleaving,       *)
(* specification SpecStore                                                 *)

\* No handler call is in progress.
Quiescent == \A c \in Callers : op[c].pc = "idle"

\* The stored messages of a session.
MessagesOf(sid) == { r \in conversation_messages : r.session_id = sid }

\* C25: every existing session's message_count equals the number of stored
\* messages with its session_id and is not negative, however addMessage and
\* deleteMessage calls interleaved or failed; stated for the states in which
\* no call is in progress, which the claim's "every reachable state" covers.
C25_MessageCountMatches ==
    Quiescent =>
        \A sid \in DOMAIN conversation_sessions :
            /\ conversation_sessions[sid] = Cardinality(MessagesOf(sid))
            /\ conversation_sessions[sid] >= 0

\* The sessions whose is_active is true.
ActiveSessions == { sid \in DOMAIN is_active : is_active[sid] }

\* C26: at most one session is active in every state, however createSession
\* and switchSession calls interleave; and when the only call made so far
\* was a createSession, or a switchSession to an existing session, and it
\* has completed, exactly its session is active.
C26_AtMostOneActive ==
    /\ Cardinality(ActiveSessions) <= 1
    /\ \A c \in Callers :
          (/\ started = 1
           /\ op[c].pc = "resolved"
           /\ "kind" \in DOMAIN op[c]
           /\ op[c].sessionId \in DOMAIN is_active) =>
              ActiveSessions = {op[c].sessionId}

\* C28: addMessage calls with the same sessionId, text and sender made
\* within the window store at most one message row between them: no two
\* rows of a session share text, sender and the instant of their creation.
C28_InterleavedDuplicateStoredOnce ==
    \A r, q \in conversation_messages :
        (/\ r.session_id = q.session_id
         /\ r.content = q.content
         /\ r.role = q.role
         /\ r.created_at = q.created_at) => r = q

=============================================================================
